---- MODULE Spec2Model ----
(***************************************************************************)
(* A model of the scaffold / pipeline / watcher / engine-registry core of  *)
(* tiveor/scg.                                                             *)
(*                                                                         *)
(* Strings are sequences of one-character strings, so that the string     *)
(* conversions of the code (regular-expression escaping, global replace,   *)
(* path.join, path.dirname) are computed character by character.           *)
(* Asynchronous functions are split at their awaits: one action runs the   *)
(* code from one suspension point to the next.                             *)
(***************************************************************************)
EXTENDS Integers, Sequences, FiniteSets, TLC

(***************************************************************************)
(* Generic helpers on character sequences                                  *)
(***************************************************************************)

\* s.slice(from) with a 0-based index: the characters after the first `from`
Drop(s, from) == SubSeq(s, from + 1, Len(s))

\* s.slice(0, n): the first n characters
Take(s, n) == SubSeq(s, 1, n)

\* true iff t occurs in s at 0-based index i
OccursAt(s, t, i) ==
    /\ i >= 0
    /\ i + Len(t) =< Len(s)
    /\ SubSeq(s, i + 1, i + Len(t)) = t

\* the number of (possibly overlapping) occurrences of the non-empty t in s
CountOcc(s, t) == Cardinality({i \in 0..Len(s) : Len(t) > 0 /\ OccursAt(s, t, i)})

Contains(s, t) == \E i \in 0..Len(s) : OccursAt(s, t, i)

(***************************************************************************)
(* StringHelper (string_helper.ts)                                         *)
(***************************************************************************)

\* the character class of escapeRegex: . * + ? ^ $ { } ( ) | [ ] \
RegexSpecial == {".", "*", "+", "?", "^", "$", "{", "}", "(", ")", "|", "[", "]", "\\"}

\* StringHelper.escapeRegex: every special character gets a backslash in front
RECURSIVE escapeRegex(_)
escapeRegex(string) ==
    IF string = <<>> THEN <<>>
    ELSE (IF Head(string) \in RegexSpecial
            THEN <<"\\", Head(string)>>
            ELSE <<Head(string)>>) \o escapeRegex(Tail(string))

\* new RegExp(pattern): the pattern as a sequence of atoms.  A backslash
\* makes the next character a literal, an unescaped "." matches any
\* character, an unescaped "$" matches only at the end of the input, every
\* other character matches itself.
RECURSIVE RegExpAtoms(_)
RegExpAtoms(pattern) ==
    IF pattern = <<>> THEN <<>>
    ELSE IF Head(pattern) = "\\" /\ Len(pattern) >= 2
      THEN <<[kind |-> "lit", ch |-> pattern[2]]>> \o RegExpAtoms(Drop(pattern, 2))
    ELSE IF Head(pattern) = "."
      THEN <<[kind |-> "any", ch |-> "."]>> \o RegExpAtoms(Tail(pattern))
    ELSE IF Head(pattern) = "$"
      THEN <<[kind |-> "end", ch |-> "$"]>> \o RegExpAtoms(Tail(pattern))
    ELSE <<[kind |-> "lit", ch |-> Head(pattern)]>> \o RegExpAtoms(Tail(pattern))

\* the length of the match of atoms in s at 0-based index i, or -1
RECURSIVE MatchLen(_, _, _)
MatchLen(atoms, s, i) ==
    IF atoms = <<>> THEN 0
    ELSE IF Head(atoms).kind = "end"
      THEN IF i = Len(s)
             THEN MatchLen(Tail(atoms), s, i)
             ELSE -1
    ELSE IF i >= Len(s) THEN -1
    ELSE IF Head(atoms).kind = "any" \/ Head(atoms).ch = s[i + 1]
      THEN LET rest == MatchLen(Tail(atoms), s, i + 1)
           IN  IF rest < 0 THEN -1 ELSE rest + 1
    ELSE -1

\* the grave accent character (U+0060), which a string of this module can
\* not hold: it has a character of its own
GraveAccent == "U+0060"

\* GetSubstitution of String.prototype.replace for a pattern without capture
\* groups: in the replacement text "$$" stands for "$", "$&" for the match,
\* "$" and a grave accent for the text before the match and "$" and an
\* apostrophe for the text after it.
RECURSIVE GetSubstitution(_, _, _, _)
GetSubstitution(matched, before, after, replacement) ==
    IF replacement = <<>> THEN <<>>
    ELSE IF Head(replacement) = "$" /\ Len(replacement) >= 2
      THEN LET c == replacement[2]
               rest == Drop(replacement, 2)
           IN  IF c = "$" THEN <<"$">> \o GetSubstitution(matched, before, after, rest)
               ELSE IF c = "&" THEN matched \o GetSubstitution(matched, before, after, rest)
               ELSE IF c = GraveAccent THEN before \o GetSubstitution(matched, before, after, rest)
               ELSE IF c = "'" THEN after \o GetSubstitution(matched, before, after, rest)
               ELSE <<"$">> \o GetSubstitution(matched, before, after, Tail(replacement))
    ELSE <<Head(replacement)>> \o GetSubstitution(matched, before, after, Tail(replacement))

\* line.replace(regexp with the g flag, value): the matches are found left to
\* right on the original line, never inside an inserted replacement; after an
\* empty match the scan moves on by one character.
RECURSIVE ReplaceGlobal(_, _, _, _)
ReplaceGlobal(line, atoms, value, i) ==
    IF i > Len(line) THEN <<>>
    ELSE LET n == MatchLen(atoms, line, i)
         IN  IF n < 0
               THEN IF i = Len(line) THEN <<>>
                    ELSE <<line[i + 1]>> \o ReplaceGlobal(line, atoms, value, i + 1)
             ELSE GetSubstitution(SubSeq(line, i + 1, i + n), Take(line, i),
                                  Drop(line, i + n), value)
                  \o (IF n = 0
                        THEN IF i = Len(line) THEN <<>>
                             ELSE <<line[i + 1]>> \o ReplaceGlobal(line, atoms, value, i + 1)
                        ELSE ReplaceGlobal(line, atoms, value, i + n))

\* StringHelper.replace for string arguments
replace(line, token, value) ==
    ReplaceGlobal(line, RegExpAtoms(escapeRegex(token)), value, 0)

(***************************************************************************)
(* path (posix)                                                            *)
(***************************************************************************)

\* the segments of a path between its "/" separators
RECURSIVE SplitSlash(_, _)
SplitSlash(p, cur) ==
    IF p = <<>> THEN <<cur>>
    ELSE IF Head(p) = "/" THEN <<cur>> \o SplitSlash(Tail(p), <<>>)
    ELSE SplitSlash(Tail(p), Append(cur, Head(p)))

RECURSIVE JoinSlash(_)
JoinSlash(segs) ==
    IF segs = <<>> THEN <<>>
    ELSE IF Len(segs) = 1 THEN segs[1]
    ELSE segs[1] \o <<"/">> \o JoinSlash(Tail(segs))

\* normalizeString: drops empty and "." segments and resolves ".."
RECURSIVE NormalizeSegs(_, _, _)
NormalizeSegs(segs, res, allowAboveRoot) ==
    IF segs = <<>> THEN res
    ELSE LET seg == Head(segs) IN
         IF seg = <<>> \/ seg = <<".">>
           THEN NormalizeSegs(Tail(segs), res, allowAboveRoot)
         ELSE IF seg = <<".", ".">>
           THEN IF res # <<>> /\ res[Len(res)] # <<".", ".">>
                  THEN NormalizeSegs(Tail(segs), Take(res, Len(res) - 1), allowAboveRoot)
                ELSE IF allowAboveRoot
                  THEN NormalizeSegs(Tail(segs), Append(res, seg), allowAboveRoot)
                ELSE NormalizeSegs(Tail(segs), res, allowAboveRoot)
         ELSE NormalizeSegs(Tail(segs), Append(res, seg), allowAboveRoot)

\* path.normalize
normalize(p) ==
    IF p = <<>> THEN <<".">>
    ELSE LET isAbsolute == p[1] = "/"
             trailingSeparator == p[Len(p)] = "/"
             body == JoinSlash(NormalizeSegs(SplitSlash(p, <<>>), <<>>, ~isAbsolute))
         IN  IF body = <<>>
               THEN IF isAbsolute THEN <<"/">>
                    ELSE IF trailingSeparator THEN <<".", "/">> ELSE <<".">>
             ELSE (IF isAbsolute THEN <<"/">> ELSE <<>>) \o body
                  \o (IF trailingSeparator THEN <<"/">> ELSE <<>>)

\* path.join(a, b): the non-empty arguments joined by "/" and normalised
pathJoin(a, b) ==
    LET joined == IF a = <<>> THEN b
                  ELSE IF b = <<>> THEN a
                  ELSE a \o <<"/">> \o b
    IN  IF joined = <<>> THEN <<".">> ELSE normalize(joined)

\* the 0-based index of the "/" that ends the directory part, or -1
RECURSIVE DirnameEnd(_, _, _)
DirnameEnd(p, i, matchedSlash) ==
    IF i < 1 THEN -1
    ELSE IF p[i + 1] = "/"
      THEN IF ~matchedSlash THEN i ELSE DirnameEnd(p, i - 1, matchedSlash)
    ELSE DirnameEnd(p, i - 1, FALSE)

\* path.dirname
dirname(p) ==
    IF p = <<>> THEN <<".">>
    ELSE LET hasRoot == p[1] = "/"
             end == DirnameEnd(p, Len(p) - 1, TRUE)
         IN  IF end = -1 THEN (IF hasRoot THEN <<"/">> ELSE <<".">>)
             ELSE IF hasRoot /\ end = 1 THEN <<"/", "/">>
             ELSE Take(p, end)


\* the last path segment, trailing separators dropped
Basename(p) ==
    LET segs == SelectSeq(SplitSlash(p, <<>>), LAMBDA g : g # <<>>)
    IN  IF segs = <<>> THEN <<>> ELSE segs[Len(segs)]

\* path.extname: from the last "." of the last segment to its end; "" when
\* there is no ".", when the only "." is the first character of the segment,
\* and for ".."
extname(p) ==
    LET b == Basename(p)
        dots == {i \in 1..Len(b) : b[i] = "."}
    IN  IF dots = {} \/ b = <<".", ".">> THEN <<>>
        ELSE LET d == CHOOSE i \in dots : \A j \in dots : j =< i
             IN  IF d = 1 THEN <<>> ELSE SubSeq(b, d, Len(b))

UpperLetters ==
    <<"A", "B", "C", "D", "E", "F", "G", "H", "I", "J", "K", "L", "M",
      "N", "O", "P", "Q", "R", "S", "T", "U", "V", "W", "X", "Y", "Z">>
LowerLetters ==
    <<"a", "b", "c", "d", "e", "f", "g", "h", "i", "j", "k", "l", "m",
      "n", "o", "p", "q", "r", "s", "t", "u", "v", "w", "x", "y", "z">>

\* String.prototype.toLowerCase
RECURSIVE toLowerCase(_)
toLowerCase(s) ==
    IF s = <<>> THEN <<>>
    ELSE LET upper == {k \in 1..Len(UpperLetters) : UpperLetters[k] = Head(s)}
         IN  <<IF upper = {} THEN Head(s) ELSE LowerLetters[CHOOSE k \in upper : TRUE]>>
             \o toLowerCase(Tail(s))

\* path.resolve of one path, the working directory being "/"
pathResolve(p) == normalize(<<"/">> \o p)

\* the number of leading segments two segment lists share
RECURSIVE CommonPrefix(_, _)
CommonPrefix(a, b) ==
    IF a = <<>> \/ b = <<>> \/ Head(a) # Head(b) THEN 0
    ELSE 1 + CommonPrefix(Tail(a), Tail(b))

\* path.relative(from, to): ".." for every segment of from that to does not
\* share, then the segments of to that from does not share
pathRelative(from, to) ==
    LET f == SelectSeq(SplitSlash(pathResolve(from), <<>>), LAMBDA g : g # <<>>)
        t == SelectSeq(SplitSlash(pathResolve(to), <<>>), LAMBDA g : g # <<>>)
        c == CommonPrefix(f, t)
    IN  JoinSlash([i \in 1..(Len(f) - c) |-> <<".", ".">>] \o Drop(t, c))

\* String.prototype.replace(pattern, replacement) with a string pattern: the
\* first occurrence only
stringReplace(s, pattern, replacement) ==
    LET hits == {i \in 0..Len(s) : OccursAt(s, pattern, i)}
    IN  IF hits = {} THEN s
        ELSE LET i == CHOOSE h \in hits : \A g \in hits : h =< g
             IN  Take(s, i)
                 \o GetSubstitution(pattern, Take(s, i), Drop(s, i + Len(pattern)),
                                    replacement)
                 \o Drop(s, i + Len(pattern))

(***************************************************************************)
(* State                                                                   *)
(***************************************************************************)
VARIABLES
    customEngines,   \* template_builder: the customEngines object, its own
                     \* properties in key order as <<[name, engine]>>
    registerResult,  \* outcome of the last registerEngine call
    registerCount,   \* number of registerEngine calls made
    registerLog,     \* history: the registerEngine calls and their outcomes
    lastRender,      \* the last render or renderFile call on a TemplateBuilder and its outcome
    dirs,            \* file system: the directories that exist
    files,           \* file system: path -> content of the files written
    scaffold,        \* the frame of the Scaffold.from call
    fsLog,           \* history: the mkdir, render and write effects, in order
    content,         \* Pipeline.content
    contentPromise,  \* Pipeline.contentPromise: 0 for null, else a promise
    transforms,      \* Pipeline.transforms
    promises,        \* the render promises created so far, by number
    executions,      \* the frames of the execute() calls, by number
    apiCalls,        \* history: the number of calls made on the pipeline
    lastCall,        \* history: the most recent from...() call
    lastSet,         \* history: the source the most recent from...() call
                     \* that returned has set
    options,         \* Watcher.options
    abortController, \* Watcher.abortController: 0 for null, else a controller
    aborted,         \* the controllers whose abort() was called
    observers,       \* the signals of the FSWatchers fs.watch has created
    tasks,           \* the frames of the handleChange calls, by number
    cbLog,           \* history: the callback invocations, in order
    calls,           \* history: the start() and stop() calls, in order
    replaced,        \* history: the last StringHelper.replace call and its result
    runs,            \* the promises CommandHelper.run has returned, by number
    spawned          \* the processes exec has started, by number

registryVars == <<customEngines, registerResult, registerCount, registerLog, lastRender>>
fsVars == <<dirs, files, fsLog>>
scaffoldVars == <<scaffold>>
pipelineVars ==
    <<content, contentPromise, transforms, promises, executions,
      apiCalls, lastCall, lastSet>>

watcherVars == <<options, abortController, aborted, observers, tasks, cbLog, calls>>

helperVars == <<replaced, runs, spawned>>

vars == <<registryVars, fsVars, scaffoldVars, pipelineVars, watcherVars, helperVars>>

\* undefined, where an engine object is expected
NoValue == [id |-> "undefined", render |-> FALSE, renderFile |-> FALSE]

(***************************************************************************)
(* Engine registry and TemplateBuilder (template_builder.ts)               *)
(***************************************************************************)

\* TEMPLATE_HANDLERS
TEMPLATE_HANDLERS == [HANDLEBARS |-> "HANDLEBARS", EJS |-> "EJS", PUG |-> "PUG"]

\* an engine object: its identity, and whether its render and renderFile
\* properties are functions
Engine(id, r, rf) == [id |-> id, render |-> r, renderFile |-> rf]

\* builtInEngines, in the key order of the object literal
builtInEngines ==
    << [name |-> TEMPLATE_HANDLERS.HANDLEBARS, engine |-> Engine("HandlebarsHelper", TRUE, TRUE)],
       [name |-> TEMPLATE_HANDLERS.EJS, engine |-> Engine("EjsHelper", TRUE, TRUE)],
       [name |-> TEMPLATE_HANDLERS.PUG, engine |-> Engine("PugHelper", TRUE, TRUE)] >>

\* the members every plain object inherits from Object.prototype (the ones
\* the inputs of this model use)
ObjectPrototypeKeys == {"constructor", "toString"}

\* Object.keys(obj)
ObjectKeys(obj) == [i \in 1..Len(obj) |-> obj[i].name]

HasOwn(obj, name) == \E i \in 1..Len(obj) : obj[i].name = name

\* obj[name] on a plain object: the own property, else the member inherited
\* from Object.prototype, else undefined
GetProperty(obj, name) ==
    IF HasOwn(obj, name)
      THEN (CHOOSE e \in {obj[i] : i \in 1..Len(obj)} : e.name = name).engine
    ELSE IF name \in ObjectPrototypeKeys
      THEN Engine(IF name = "constructor" THEN "Object.prototype.constructor"
                  ELSE "Object.prototype.toString", FALSE, FALSE)
    ELSE NoValue

\* the value of a canonical array-index key ("0", "1", ...), or -1: such keys
\* come first, in ascending order, in the key order of an object
ArrayIndexValue(name) ==
    IF name = "0" THEN 0 ELSE IF name = "1" THEN 1 ELSE IF name = "2" THEN 2 ELSE -1

\* the position at which a new own property is inserted
RECURSIVE InsertPos(_, _, _)
InsertPos(obj, name, i) ==
    IF i > Len(obj) THEN i
    ELSE IF ArrayIndexValue(name) >= 0
            /\ (ArrayIndexValue(obj[i].name) < 0
                \/ ArrayIndexValue(obj[i].name) > ArrayIndexValue(name))
      THEN i
    ELSE InsertPos(obj, name, i + 1)

\* obj[name] = engine
SetProperty(obj, name, engine) ==
    IF HasOwn(obj, name)
      THEN [i \in 1..Len(obj) |->
              IF obj[i].name = name THEN [name |-> name, engine |-> engine] ELSE obj[i]]
    ELSE LET k == InsertPos(obj, name, 1)
         IN  Take(obj, k - 1) \o <<[name |-> name, engine |-> engine]>> \o Drop(obj, k - 1)

\* a ?? b
Nullish(a, b) == IF a = NoValue THEN b ELSE a

\* TemplateBuilder.getEngine
getEngine(custom, name) ==
    Nullish(GetProperty(custom, name), GetProperty(builtInEngines, name))

\* TemplateBuilder.getRegisteredEngines
getRegisteredEngines(custom) == ObjectKeys(builtInEngines) \o ObjectKeys(custom)

\* resolveEngine in which a built-in engine goes before a custom one
resolveBuiltInFirst(custom, templateHandler) ==
    Nullish(GetProperty(builtInEngines, templateHandler),
            Nullish(GetProperty(custom, templateHandler),
                    GetProperty(builtInEngines, TEMPLATE_HANDLERS.HANDLEBARS)))

\* TemplateBuilder.resolveEngine for a builder bound to templateHandler
resolveEngine(custom, templateHandler) ==
    Nullish(GetProperty(custom, templateHandler),
            Nullish(GetProperty(builtInEngines, templateHandler),
                    GetProperty(builtInEngines, TEMPLATE_HANDLERS.HANDLEBARS)))

\* the names and engine objects handed to registerEngine; a name is a
\* JavaScript value [type, v]
RegisterNames ==
    { [type |-> "string", v |-> "X"], [type |-> "string", v |-> "EJS"],
      [type |-> "string", v |-> "1"],
      [type |-> "string", v |-> ""], [type |-> "number", v |-> "7"] }

RegisterEngines ==
    { Engine("custom1", TRUE, TRUE), Engine("custom2", TRUE, TRUE),
      Engine("renderOnly", TRUE, FALSE), NoValue }

\* the registerEngine calls made: every name with an engine that has both
\* methods, and a good name with every engine
RegisterArgs ==
    (RegisterNames \X {Engine("custom1", TRUE, TRUE), Engine("custom2", TRUE, TRUE)})
        \cup ({[type |-> "string", v |-> "X"]} \X RegisterEngines)

\* !name
Falsy(name) == name.type = "undefined" \/ (name.type = "string" /\ name.v = "")

MaxRegister == 2

\* the history of a registerEngine call
Registered(name, engine, outcome) ==
    /\ registerCount' = registerCount + 1
    /\ registerResult' = outcome
    /\ registerLog' = Append(registerLog,
                             [name |-> name, engine |-> engine, outcome |-> outcome])

\* registerEngine that asks for one of render and renderFile only
registerEngineEitherMethod(name, engine) ==
    /\ registerCount < MaxRegister
    /\ IF Falsy(name) \/ name.type # "string"
         THEN /\ Registered(name, engine, "engine name must be a non-empty string")
              /\ UNCHANGED customEngines
       ELSE IF engine = NoValue \/ (~engine.render /\ ~engine.renderFile)
         THEN /\ Registered(name, engine,
                            "engine must implement render() and renderFile() methods")
              /\ UNCHANGED customEngines
       ELSE /\ customEngines' = SetProperty(customEngines, name.v, engine)
            /\ Registered(name, engine, "ok")

\* TemplateBuilder.registerEngine(name, engine)
registerEngine(name, engine) ==
    /\ registerCount < MaxRegister
    /\ IF Falsy(name) \/ name.type # "string"
         THEN /\ Registered(name, engine, "engine name must be a non-empty string")
              /\ UNCHANGED customEngines
       ELSE IF engine = NoValue \/ ~engine.render \/ ~engine.renderFile
         THEN /\ Registered(name, engine,
                            "engine must implement render() and renderFile() methods")
              /\ UNCHANGED customEngines
       ELSE /\ customEngines' = SetProperty(customEngines, name.v, engine)
            /\ Registered(name, engine, "ok")

RegisterEngine ==
    \E args \in RegisterArgs :
        /\ registerEngine(args[1], args[2])
        /\ UNCHANGED <<lastRender, fsVars, scaffoldVars, pipelineVars, watcherVars, helperVars>>

\* what a call of the render (isFile FALSE) or renderFile (isFile TRUE)
\* function of an engine gives for the template `of`: the promise it returns,
\* fulfilled with the text the engine renders or rejected with its error
EngineRender(engine, of, isFile, ok) ==
    IF ok THEN [state |-> "fulfilled", by |-> engine.id, isFile |-> isFile, of |-> of]
    ELSE [state |-> "rejected", by |-> engine.id, isFile |-> isFile, of |-> of]

\* the TypeError of calling a property that is not a function
NotAFunction == [state |-> "thrown", by |-> "TypeError", isFile |-> FALSE, of |-> <<>>]

\* new TemplateBuilder(templateHandler).render(of, ...) or .renderFile(of, ...)
BuilderRenderCall(templateHandler, of, isFile, ok) ==
    LET engine == resolveEngine(customEngines, templateHandler)
        callable == IF isFile THEN engine.renderFile ELSE engine.render
    IN  IF callable THEN EngineRender(engine, of, isFile, ok) ELSE NotAFunction

\* the names a TemplateBuilder is bound to, and getEngine is asked for
HandlerNames == {"X", "EJS", "1", "PUG", "UNKNOWN", "toString"}

NoRender == [templateHandler |-> "", of |-> <<>>, isFile |-> FALSE, ok |-> FALSE,
             outcome |-> NotAFunction]

BuilderRender ==
    \E templateHandler \in HandlerNames, isFile \in BOOLEAN, ok \in BOOLEAN :
        /\ lastRender' = [templateHandler |-> templateHandler, of |-> <<"s">>,
                          isFile |-> isFile, ok |-> ok,
                          outcome |-> BuilderRenderCall(templateHandler, <<"s">>,
                                                        isFile, ok)]
        /\ UNCHANGED <<customEngines, registerResult, registerCount, registerLog,
                       fsVars, scaffoldVars, pipelineVars, watcherVars, helperVars>>

(***************************************************************************)
(* Scaffold (scaffold.ts)                                                  *)
(***************************************************************************)

\* resolveVariables: one StringHelper.replace per entry of variables, in the
\* order of Object.entries, each on the result of the previous one
RECURSIVE resolveVariables(_, _)
resolveVariables(template, variables) ==
    IF variables = <<>> THEN template
    ELSE resolveVariables(
             replace(template, <<"{", "{">> \o Head(variables).key \o <<"}", "}">>,
                     Head(variables).value),
             Tail(variables))

ScaffoldFile(t, o) == [template |-> t, output |-> o]
Var(k, v) == [key |-> k, value |-> v]

\* the manifests Scaffold.from is called with (dryRun is chosen at the call)
Manifests ==
    { \* outputDir "./o/{{n}}", variables {n: "B"}, outputs "{{n}}.x" and "i"
      [engine |-> "EJS", templateDir |-> <<"t">>,
       outputDir |-> <<".", "/", "o", "/", "{", "{", "n", "}", "}">>,
       variables |-> <<Var(<<"n">>, <<"B">>)>>,
       structure |-> <<ScaffoldFile(<<"c">>, <<"{", "{", "n", "}", "}", ".", "x">>),
                       ScaffoldFile(<<"d">>, <<"i">>)>>],
      \* three entries, the third one writes the path of the first again
      [engine |-> "X", templateDir |-> <<"t">>,
       outputDir |-> <<"o">>,
       variables |-> <<Var(<<"n">>, <<"B">>)>>,
       structure |-> <<ScaffoldFile(<<"c">>, <<"a">>),
                       ScaffoldFile(<<"d">>, <<"{", "{", "n", "}", "}", "/", "{", "{", "n", "}", "}">>),
                       ScaffoldFile(<<"e">>, <<"a">>)>>],
      \* variables {a: "{{b}}", b: "Y"}: the value of a holds the placeholder of b
      [engine |-> "PUG", templateDir |-> <<"t">>,
       outputDir |-> <<"o", "/", "{", "{", "a", "}", "}">>,
       variables |-> <<Var(<<"a">>, <<"{", "{", "b", "}", "}">>), Var(<<"b">>, <<"Y">>)>>,
       structure |-> <<ScaffoldFile(<<"c">>, <<"{", "{", "b", "}", "}">>)>>],
      \* variables {n: "$&"}: the value is a replacement pattern
      [engine |-> "EJS", templateDir |-> <<"t">>,
       outputDir |-> <<"o">>,
       variables |-> <<Var(<<"n">>, <<"$", "&">>)>>,
       structure |-> <<ScaffoldFile(<<"c">>, <<"{", "{", "n", "}", "}">>)>>],
      \* an engine name that is a member of Object.prototype
      [engine |-> "toString", templateDir |-> <<"t">>,
       outputDir |-> <<"o">>,
       variables |-> <<>>,
       structure |-> <<ScaffoldFile(<<"c">>, <<"a">>)>>],
      \* no structure entry
      [engine |-> "EJS", templateDir |-> <<"t">>,
       outputDir |-> <<"o">>,
       variables |-> <<>>,
       structure |-> <<>>] }

NoError == [kind |-> "none", at |-> 0]
Error(kind, at) == [kind |-> kind, at |-> at]

ScaffoldIdle ==
    [pc |-> "idle", options |-> <<>>, dryRun |-> FALSE, templateHandler |-> "",
     resolvedOutputDir |-> <<>>, createdFiles |-> <<>>, idx |-> 0,
     templatePath |-> <<>>, outputPath |-> <<>>, pending |-> NoValue,
     error |-> NoError, result |-> [files |-> <<>>, dryRun |-> FALSE],
     engineAtStart |-> NoValue]

\* writeFileSync that leaves a file that is there as it is
WriteFileIfAbsent(f, path, data) ==
    [q \in DOMAIN f \cup {path} |-> IF q = path /\ q \notin DOMAIN f THEN data ELSE f[q]]

\* writeFileSync(path, content)
WriteFile(f, path, data) ==
    [q \in DOMAIN f \cup {path} |-> IF q = path THEN data ELSE f[q]]

\* what an engine's renderFile resolves to: the text engine `by` renders from
\* the template file fileName
Rendered(by, fileName) == [by |-> by, fileName |-> fileName]

\* templatePath, outputPath and dir of the structure entry s.idx
ScaffoldPaths(s) ==
    LET file == s.options.structure[s.idx]
        outputFileName == resolveVariables(file.output, s.options.variables)
        outputPath == pathJoin(s.resolvedOutputDir, outputFileName)
    IN  [templatePath |-> pathJoin(s.options.templateDir, file.template),
         outputPath |-> outputPath,
         dir |-> dirname(outputPath)]

\* the path put in front of the list instead of at its end
ScaffoldRecordFront(s, outputPath) ==
    [s EXCEPT !.createdFiles = <<outputPath>> \o @, !.idx = @ + 1]

\* createdFiles.push(outputPath), and on to the next entry
ScaffoldRecord(s, outputPath) ==
    [s EXCEPT !.createdFiles = Append(@, outputPath), !.idx = @ + 1]

\* one iteration that is not a dry run, up to its await: the directory is
\* created if it is missing (mkdirOk: whether mkdirSync succeeds), then
\* builder.renderFile resolves the engine and starts the render
ScaffoldStartEntry(s, custom, d, lg, mkdirOk) ==
    LET p == ScaffoldPaths(s)
        engine == resolveEngine(custom, s.templateHandler)
        lgDir == IF p.dir \in d THEN lg
                 ELSE Append(lg, [op |-> "mkdir", at |-> s.idx, path |-> p.dir])
    IN  IF p.dir \notin d /\ ~mkdirOk
          THEN [scaffold |-> [s EXCEPT !.pc = "rejected",
                                       !.error = Error("mkdir", s.idx)],
                dirs |-> d, fsLog |-> lg]
        ELSE IF ~engine.renderFile
          THEN [scaffold |-> [s EXCEPT !.pc = "rejected",
                                       !.error = Error("TypeError", s.idx)],
                dirs |-> d \cup {p.dir}, fsLog |-> lgDir]
        ELSE [scaffold |-> [s EXCEPT !.pc = "await",
                                     !.templatePath = p.templatePath,
                                     !.outputPath = p.outputPath,
                                     !.pending = engine],
              dirs |-> d \cup {p.dir},
              fsLog |-> Append(lgDir, [op |-> "render", at |-> s.idx,
                                       path |-> p.templatePath, by |-> engine.id])]

RECURSIVE ScaffoldLoop(_, _, _, _, _)

\* the loop with the dryRun test left out
ScaffoldLoopNoDryRun(s, custom, d, lg, mkdirOk) ==
    IF s.idx > Len(s.options.structure)
      THEN [scaffold |-> [s EXCEPT !.pc = "returned",
                                   !.result = [files |-> s.createdFiles,
                                               dryRun |-> s.dryRun]],
            dirs |-> d, fsLog |-> lg]
    ELSE ScaffoldStartEntry(s, custom, d, lg, mkdirOk)

\* the for loop of Scaffold.from, run from entry s.idx up to the next await
\* (pc "await"), the return (pc "returned") or a throw (pc "rejected")
ScaffoldLoop(s, custom, d, lg, mkdirOk) ==
    IF s.idx > Len(s.options.structure)
      THEN [scaffold |-> [s EXCEPT !.pc = "returned",
                                   !.result = [files |-> s.createdFiles,
                                               dryRun |-> s.dryRun]],
            dirs |-> d, fsLog |-> lg]
    ELSE IF s.dryRun
      THEN ScaffoldLoop(ScaffoldRecord(s, ScaffoldPaths(s).outputPath),
                        custom, d, lg, mkdirOk)
    ELSE ScaffoldStartEntry(s, custom, d, lg, mkdirOk)

\* Scaffold.from(options), up to its first await
ScaffoldFrom ==
    \E m \in Manifests, dryRun \in BOOLEAN, mkdirOk \in BOOLEAN :
        /\ scaffold.pc = "idle"
        /\ LET s == [ScaffoldIdle EXCEPT
                        !.options = m,
                        !.dryRun = dryRun,
                        !.templateHandler = m.engine,
                        !.engineAtStart = resolveEngine(customEngines, m.engine),
                        !.resolvedOutputDir = resolveVariables(m.outputDir, m.variables),
                        !.idx = 1]
               r == ScaffoldLoop(s, customEngines, dirs, fsLog, mkdirOk)
           IN  /\ scaffold' = r.scaffold
               /\ dirs' = r.dirs
               /\ fsLog' = r.fsLog
        /\ UNCHANGED <<files, registryVars, pipelineVars, watcherVars, helperVars>>

\* a resume that removes the files written so far when an entry fails
ScaffoldResumeRollback ==
    \E renderOk \in BOOLEAN, writeOk \in BOOLEAN, mkdirOk \in BOOLEAN :
        /\ scaffold.pc = "await"
        /\ IF ~renderOk \/ ~writeOk
             THEN /\ scaffold' = [scaffold EXCEPT
                                     !.pc = "rejected",
                                     !.error = Error(IF renderOk THEN "write" ELSE "render",
                                                     scaffold.idx)]
                  /\ files' = <<>>
                  /\ UNCHANGED <<dirs, fsLog>>
           ELSE LET rendered == Rendered(scaffold.pending.id, scaffold.templatePath)
                    lg == Append(fsLog, [op |-> "write", at |-> scaffold.idx,
                                         path |-> scaffold.outputPath])
                    r == ScaffoldLoop(ScaffoldRecord(scaffold, scaffold.outputPath),
                                      customEngines, dirs, lg, mkdirOk)
                IN  /\ files' = WriteFile(files, scaffold.outputPath, rendered)
                    /\ scaffold' = r.scaffold
                    /\ dirs' = r.dirs
                    /\ fsLog' = r.fsLog
        /\ UNCHANGED <<registryVars, pipelineVars, watcherVars, helperVars>>

\* the promise of builder.renderFile settles and Scaffold.from resumes: it
\* writes the file, records the path and runs the loop up to the next await
ScaffoldResume ==
    \E renderOk \in BOOLEAN, writeOk \in BOOLEAN, mkdirOk \in BOOLEAN :
        /\ scaffold.pc = "await"
        /\ IF ~renderOk
             THEN /\ scaffold' = [scaffold EXCEPT !.pc = "rejected",
                                                  !.error = Error("render", scaffold.idx)]
                  /\ UNCHANGED <<dirs, files, fsLog>>
           ELSE IF ~writeOk
             THEN /\ scaffold' = [scaffold EXCEPT !.pc = "rejected",
                                                  !.error = Error("write", scaffold.idx)]
                  /\ UNCHANGED <<dirs, files, fsLog>>
           ELSE LET rendered == Rendered(scaffold.pending.id, scaffold.templatePath)
                    lg == Append(fsLog, [op |-> "write", at |-> scaffold.idx,
                                         path |-> scaffold.outputPath])
                    r == ScaffoldLoop(ScaffoldRecord(scaffold, scaffold.outputPath),
                                      customEngines, dirs, lg, mkdirOk)
                IN  /\ files' = WriteFile(files, scaffold.outputPath, rendered)
                    /\ scaffold' = r.scaffold
                    /\ dirs' = r.dirs
                    /\ fsLog' = r.fsLog
        /\ UNCHANGED <<registryVars, pipelineVars, watcherVars, helperVars>>

\* the directories that exist before any call
InitDirs == {<<".">>, <<"t">>}

(***************************************************************************)
(* Pipeline (pipeline.ts)                                                  *)
(***************************************************************************)

\* a value of type string | null
Null == [null |-> TRUE, v |-> <<>>]
String(v) == [null |-> FALSE, v |-> v]

\* extToEngine without the case for '.jade'
extToEngineNoJade(filePath) ==
    LET ext == toLowerCase(extname(filePath))
    IN  IF ext = <<".", "e", "j", "s">> THEN "EJS"
        ELSE IF ext = <<".", "h", "b", "s">>
                \/ ext = <<".", "h", "a", "n", "d", "l", "e", "b", "a", "r", "s">>
          THEN "HANDLEBARS"
        ELSE IF ext = <<".", "p", "u", "g">> THEN "PUG"
        ELSE "HANDLEBARS"

\* extToEngine
extToEngine(filePath) ==
    LET ext == toLowerCase(extname(filePath))
    IN  IF ext = <<".", "e", "j", "s">> THEN "EJS"
        ELSE IF ext = <<".", "h", "b", "s">>
                \/ ext = <<".", "h", "a", "n", "d", "l", "e", "b", "a", "r", "s">>
          THEN "HANDLEBARS"
        ELSE IF ext = <<".", "p", "u", "g">> \/ ext = <<".", "j", "a", "d", "e">>
          THEN "PUG"
        ELSE "HANDLEBARS"

\* the text engine `by` renders from the template text or template file `of`
RenderedText(by, of) == <<by, "(">> \o of \o <<")">>

\* what a from...() call leaves as the source of the pipeline
NoSource == [kind |-> "none", v |-> <<>>, promise |-> 0]
ContentSource(v) == [kind |-> "content", v |-> v, promise |-> 0]
PromiseSource(id) == [kind |-> "promise", v |-> <<>>, promise |-> id]

MaxApiCalls == 4

\* one more call is made on the pipeline
ApiCall ==
    /\ apiCalls < MaxApiCalls
    /\ apiCalls' = apiCalls + 1

\* the history of a from...() call that returned (ok) or threw
Called(call) ==
    /\ ApiCall
    /\ lastCall' = call
    /\ lastSet' = IF call.ok THEN call.sets ELSE lastSet


\* fromString without the reset of contentPromise
fromStringKeepsPromise(source) ==
    /\ content' = String(source)
    /\ UNCHANGED contentPromise
    /\ Called([op |-> "fromString", ok |-> TRUE,
                                           sets |-> ContentSource(source)])
    /\ UNCHANGED <<transforms, promises, executions>>

\* Pipeline.fromString(source)
fromString(source) ==
    /\ content' = String(source)
    /\ contentPromise' = 0
    /\ Called([op |-> "fromString", ok |-> TRUE,
                                           sets |-> ContentSource(source)])
    /\ UNCHANGED <<transforms, promises, executions>>

\* Pipeline.fromFile(filePath); readOk: whether readFileSync succeeds, and
\* then the text of the file is <<"F">> followed by its path
fromFile(filePath, readOk) ==
    /\ IF readOk
         THEN /\ content' = String(<<"F">> \o filePath)
              /\ contentPromise' = 0
              /\ Called([op |-> "fromFile", ok |-> TRUE,
                      sets |-> ContentSource(<<"F">> \o filePath)])
         ELSE /\ UNCHANGED <<content, contentPromise>>
              /\ Called([op |-> "fromFile", ok |-> FALSE, sets |-> NoSource])
    /\ UNCHANGED <<transforms, promises, executions>>

\* this.contentPromise = <the promise of a render by the engine bound to
\* templateHandler>; this.content = null.  The render call throws, before
\* anything is assigned, when the resolved engine has no such function.
SetRenderPromise(op, templateHandler, of, isFile) ==
    LET engine == resolveEngine(customEngines, templateHandler)
        callable == IF isFile THEN engine.renderFile ELSE engine.render
        id == Len(promises) + 1
    IN  /\ IF callable
             THEN /\ promises' = Append(promises,
                        [state |-> "pending", by |-> engine.id, of |-> of,
                         templateHandler |-> templateHandler])
                  /\ contentPromise' = id
                  /\ content' = Null
                  /\ Called([op |-> op, ok |-> TRUE, sets |-> PromiseSource(id)])
             ELSE /\ UNCHANGED <<content, contentPromise, promises>>
                  /\ Called([op |-> op, ok |-> FALSE, sets |-> NoSource])
        /\ UNCHANGED <<transforms, executions>>

\* Pipeline.fromTemplate(templatePath, data, engine); engine is "" when the
\* argument is left out
fromTemplate(templatePath, engine) ==
    LET ext == IF engine = "" THEN extToEngine(templatePath) ELSE engine
    IN  SetRenderPromise("fromTemplate", ext, templatePath, TRUE)

\* Pipeline.fromTemplateString(source, data, engine)
fromTemplateString(source, engine) ==
    SetRenderPromise("fromTemplateString", engine, source, FALSE)

\* Pipeline.transform(fn)
transform(fn) ==
    /\ ApiCall
    /\ transforms' = Append(transforms, fn)
    /\ UNCHANGED <<content, contentPromise, promises, executions, lastCall, lastSet>>

\* a render promise settles
SettlePromise(id, ok) ==
    /\ promises[id].state = "pending"
    /\ promises' = [promises EXCEPT ![id].state = IF ok THEN "fulfilled" ELSE "rejected"]
    /\ UNCHANGED <<content, contentPromise, transforms, executions, apiCalls, lastCall, lastSet>>

\* what a transform function returns for an input: the input with the name of
\* the function added, so that the order of application shows in the text
Apply(fn, input) == Append(input, fn)

\* the branch of execute() on the source: the pending render if there is
\* one, else the content unless it is null, else none
SourceTruthy(c, cp) ==
    IF cp # 0 THEN PromiseSource(cp)
    ELSE IF ~c.null /\ c.v # <<>> THEN ContentSource(c.v)
    ELSE NoSource

SourceOf(c, cp) ==
    IF cp # 0 THEN PromiseSource(cp)
    ELSE IF ~c.null THEN ContentSource(c.v)
    ELSE NoSource

NoContentError == "Pipeline has no content"

\* the for loop over this.transforms, each transform handed the source again
ExecLoopFromSource(f, fns) ==
    IF f.k < Len(fns)
      THEN [f EXCEPT !.pc = "awaitTransform",
                     !.k = @ + 1,
                     !.trace = Append(@, [ev |-> "call", fn |-> fns[f.k + 1],
                                          v |-> f.input])]
      ELSE [f EXCEPT !.pc = "resolved"]

\* the for loop over this.transforms, from the frame's position k up to the
\* next await or the return; fns is this.transforms as it is now
ExecLoop(f, fns) ==
    IF f.k < Len(fns)
      THEN [f EXCEPT !.pc = "awaitTransform",
                     !.k = @ + 1,
                     !.trace = Append(@, [ev |-> "call", fn |-> fns[f.k + 1],
                                          v |-> f.result])]
      ELSE [f EXCEPT !.pc = "resolved"]

NewFrame ==
    [pc |-> "start", source |-> NoSource, lastCallAtStart |-> lastCall,
     lastSetAtStart |-> lastSet, transformsAtStart |-> transforms,
     input |-> <<>>, result |-> <<>>, k |-> 0, trace |-> <<>>, error |-> "",
     writeTo |-> Null, wpc |-> "none", returned |-> <<>>]

\* execute() that starts the render of a template source again
StartExecuteRenders(caller) ==
    /\ ApiCall
    /\ LET src == SourceOf(content, contentPromise)
           f == [NewFrame EXCEPT !.source = src, !.writeTo = caller,
                                 !.wpc = IF caller.null THEN "none" ELSE "await"]
       IN  executions' = Append(executions,
               IF src.kind = "promise" THEN [f EXCEPT !.pc = "awaitSource"]
               ELSE IF src.kind = "content"
                 THEN ExecLoop([f EXCEPT !.input = src.v, !.result = src.v], transforms)
               ELSE [f EXCEPT !.pc = "rejected", !.error = NoContentError])
    /\ promises' = IF contentPromise # 0
                     THEN Append(promises, [promises[contentPromise]
                                               EXCEPT !.state = "pending"])
                     ELSE promises
    /\ UNCHANGED <<content, contentPromise, transforms, lastCall, lastSet>>

\* execute(), up to its first await, on its own (caller Null) or as called
\* by writeTo(caller.v), which then awaits it
StartExecute(caller) ==
    /\ ApiCall
    /\ LET src == SourceOf(content, contentPromise)
           f == [NewFrame EXCEPT !.source = src, !.writeTo = caller,
                                 !.wpc = IF caller.null THEN "none" ELSE "await"]
       IN  executions' = Append(executions,
               IF src.kind = "promise" THEN [f EXCEPT !.pc = "awaitSource"]
               ELSE IF src.kind = "content"
                 THEN ExecLoop([f EXCEPT !.input = src.v, !.result = src.v], transforms)
               ELSE [f EXCEPT !.pc = "rejected", !.error = NoContentError])
    /\ UNCHANGED <<content, contentPromise, transforms, promises, lastCall, lastSet>>

\* Pipeline.execute()
execute == StartExecute(Null)

\* Pipeline.writeTo(filePath), up to `await this.execute()`
writeTo(filePath) == StartExecute(String(filePath))

\* writeTo that writes the source content
WriteToWritesInput(e, mkdirOk, writeOk) ==
    LET f == executions[e]
        dir == dirname(f.writeTo.v)
    IN  /\ f.wpc = "await"
        /\ f.pc = "resolved"
        /\ dirs' = dirs \cup {dir}
        /\ files' = WriteFile(files, f.writeTo.v, f.input)
        /\ executions' = [executions EXCEPT ![e] =
                             [f EXCEPT !.wpc = "returned", !.returned = f.input]]
        /\ UNCHANGED <<content, contentPromise, transforms, promises, apiCalls,
                       lastCall, lastSet>>

\* writeTo resumes after `await this.execute()`, once that has settled;
\* mkdirOk, writeOk: whether mkdirSync (if called) and writeFileSync succeed
WriteToResume(e, mkdirOk, writeOk) ==
    LET f == executions[e]
        dir == dirname(f.writeTo.v)
        made == IF dir \in dirs \/ mkdirOk THEN dirs \cup {dir} ELSE dirs
        wrote == dir \in made /\ writeOk
    IN  /\ f.wpc = "await"
        /\ f.pc \in {"resolved", "rejected"}
        /\ IF f.pc = "rejected"
             THEN /\ executions' = [executions EXCEPT ![e].wpc = "rejected"]
                  /\ UNCHANGED <<dirs, files>>
             ELSE /\ dirs' = made
                  /\ files' = IF wrote THEN WriteFile(files, f.writeTo.v, f.result)
                              ELSE files
                  /\ executions' = [executions EXCEPT ![e] =
                        IF wrote
                          THEN [f EXCEPT !.wpc = "returned", !.returned = f.result]
                          ELSE [f EXCEPT !.wpc = "rejected",
                                         !.error = IF dir \in made THEN "write error"
                                                   ELSE "mkdir error"]]
        /\ UNCHANGED <<content, contentPromise, transforms, promises, apiCalls,
                       lastCall, lastSet>>

\* execute() resumes after `await this.contentPromise`
ExecResumeSource(e) ==
    /\ executions[e].pc = "awaitSource"
    /\ LET pr == promises[executions[e].source.promise]
           f == executions[e]
       IN  /\ pr.state # "pending"
           /\ executions' = [executions EXCEPT ![e] =
                 IF pr.state = "rejected"
                   THEN [f EXCEPT !.pc = "rejected", !.error = "render error"]
                 ELSE ExecLoop([f EXCEPT !.input = RenderedText(pr.by, pr.of),
                                         !.result = RenderedText(pr.by, pr.of)],
                               transforms)]
    /\ UNCHANGED <<content, contentPromise, transforms, promises, apiCalls, lastCall, lastSet>>

\* execute() resumes after `await fn(result)`; ok: whether fn succeeded
ExecResumeTransform(e, ok) ==
    /\ executions[e].pc = "awaitTransform"
    /\ LET f == executions[e]
           call == f.trace[Len(f.trace)]
           out == Apply(call.fn, call.v)
       IN  executions' = [executions EXCEPT ![e] =
               IF ok
                 THEN ExecLoop([f EXCEPT !.result = out,
                                         !.trace = Append(@, [ev |-> "return",
                                                              fn |-> call.fn,
                                                              v |-> out])],
                               transforms)
               ELSE [f EXCEPT !.pc = "rejected", !.error = "transform error"]]
    /\ UNCHANGED <<content, contentPromise, transforms, promises, apiCalls, lastCall, lastSet>>

\* the inputs of the pipeline calls; an engine argument "" is one left out
WritePaths == {<<"w">>, <<"d", "/", "w">>}
SourceStrings == {<<>>, <<"s">>}
FilePaths == {<<"i", "n">>}
TemplateArgs ==
    { [templatePath |-> <<"a", ".", "E", "J", "S">>, engine |-> ""],
      [templatePath |-> <<"c">>, engine |-> "X"],
      [templatePath |-> <<"c">>, engine |-> "toString"] }
TransformFns == {"f", "g"}

\* template paths with each extension extToEngine knows, with others and
\* with none
TemplatePaths ==
    { <<"a", ".", "e", "j", "s">>, <<"a", ".", "h", "b", "s">>,
      <<"t", "/", "a", ".", "h", "a", "n", "d", "l", "e", "b", "a", "r", "s">>,
      <<"a", ".", "p", "u", "g">>, <<"a", ".", "j", "a", "d", "e">>,
      <<"a", ".", "t", "x", "t">>, <<"c">>, <<"t", ".", "e", "j", "s", "/", "c">> }

\* fromTemplate calls: every path without an engine name, and one of them
\* with the name of an engine
TemplateEngineArgs ==
    { [templatePath |-> t, engine |-> ""] : t \in TemplatePaths }
        \cup { [templatePath |-> t, engine |-> "PUG"] :
                 t \in {<<"a", ".", "e", "j", "s">>} }

notPipelineVars == <<registryVars, fsVars, scaffoldVars, watcherVars, helperVars>>

FromString ==
    /\ \E source \in SourceStrings : fromString(source)
    /\ UNCHANGED notPipelineVars
FromFile ==
    /\ \E filePath \in FilePaths, readOk \in BOOLEAN : fromFile(filePath, readOk)
    /\ UNCHANGED notPipelineVars
FromTemplate ==
    /\ \E a \in TemplateArgs : fromTemplate(a.templatePath, a.engine)
    /\ UNCHANGED notPipelineVars
\* fromTemplate(templatePath) for one template, its engine left to the
\* extension
FromTemplateByExtension ==
    /\ fromTemplate(<<"a", ".", "E", "J", "S">>, "")
    /\ UNCHANGED notPipelineVars
FromTemplateOf ==
    /\ \E a \in TemplateEngineArgs : fromTemplate(a.templatePath, a.engine)
    /\ UNCHANGED notPipelineVars
FromTemplateString ==
    /\ fromTemplateString(<<"s">>, "PUG")
    /\ UNCHANGED notPipelineVars
Transform ==
    /\ \E fn \in TransformFns : transform(fn)
    /\ UNCHANGED notPipelineVars
Settle ==
    /\ \E id \in 1..Len(promises), ok \in BOOLEAN : SettlePromise(id, ok)
    /\ UNCHANGED notPipelineVars
Execute ==
    /\ execute
    /\ UNCHANGED notPipelineVars
ResumeSource ==
    /\ \E e \in 1..Len(executions) : ExecResumeSource(e)
    /\ UNCHANGED notPipelineVars
ResumeTransform ==
    /\ \E e \in 1..Len(executions), ok \in BOOLEAN : ExecResumeTransform(e, ok)
    /\ UNCHANGED notPipelineVars
WriteTo ==
    /\ \E filePath \in WritePaths : writeTo(filePath)
    /\ UNCHANGED notPipelineVars
ResumeWriteTo ==
    /\ \E e \in 1..Len(executions), mkdirOk \in BOOLEAN, writeOk \in BOOLEAN :
          WriteToResume(e, mkdirOk, writeOk)
    /\ UNCHANGED <<registryVars, scaffoldVars, watcherVars, helperVars, fsLog>>

(***************************************************************************)
(* Watcher (watcher.ts)                                                    *)
(***************************************************************************)

\* the default of the constructor: ['.ejs', '.hbs', '.handlebars', '.pug']
DefaultExtensions ==
    { <<".", "e", "j", "s">>, <<".", "h", "b", "s">>,
      <<".", "h", "a", "n", "d", "l", "e", "b", "a", "r", "s">>,
      <<".", "p", "u", "g">> }

\* the options a Watcher is constructed with; onRebuild and onError say
\* whether the callback is given
WatcherOptions ==
    { [templateDir |-> <<"t">>, outputDir |-> <<"o", "u", "t">>,
       engine |-> o.engine, extensions |-> DefaultExtensions,
       onRebuild |-> o.callbacks, onError |-> o.callbacks]
        : o \in { [engine |-> "EJS", callbacks |-> TRUE],
                  [engine |-> "EJS", callbacks |-> FALSE],
                  [engine |-> "toString", callbacks |-> TRUE] } }

MaxCalls == 3
MaxEvents == 1

\* Watcher.isRunning
isRunning == abortController # 0

\* start() without the test for a running watcher
startAgain(mkdirOk, watchOk) ==
    /\ Len(calls) < MaxCalls
    /\ LET id == Cardinality(aborted \cup observers) + 1 IN
       /\ abortController' = id
       /\ IF options.outputDir \notin dirs /\ ~mkdirOk
            THEN /\ calls' = Append(calls, [op |-> "start",
                                            threw |-> Error("mkdir", 0),
                                            watchFailed |-> FALSE,
                                            effective |-> TRUE])
                 /\ UNCHANGED <<observers, dirs>>
            ELSE /\ dirs' = dirs \cup {options.outputDir}
                 /\ observers' = IF watchOk THEN observers \cup {id} ELSE observers
                 /\ calls' = Append(calls, [op |-> "start", threw |-> NoError,
                                            watchFailed |-> ~watchOk,
                                            effective |-> TRUE])
    /\ UNCHANGED <<options, aborted, tasks, cbLog, files, fsLog>>

\* Watcher.start(); mkdirOk: whether mkdirSync succeeds if it is called;
\* watchOk: whether fs.watch succeeds
start(mkdirOk, watchOk) ==
    /\ Len(calls) < MaxCalls
    /\ IF abortController # 0
         THEN /\ calls' = Append(calls, [op |-> "start", threw |-> NoError,
                                         watchFailed |-> FALSE, effective |-> FALSE])
              /\ UNCHANGED <<abortController, observers, dirs>>
       ELSE LET id == Cardinality(aborted) + 1 IN
            /\ abortController' = id
            /\ IF options.outputDir \notin dirs /\ ~mkdirOk
                 THEN /\ calls' = Append(calls, [op |-> "start",
                                                 threw |-> Error("mkdir", 0),
                                                 watchFailed |-> FALSE,
                                                 effective |-> TRUE])
                      /\ UNCHANGED <<observers, dirs>>
                 ELSE /\ dirs' = dirs \cup {options.outputDir}
                      /\ observers' = IF watchOk THEN observers \cup {id} ELSE observers
                      /\ calls' = Append(calls, [op |-> "start", threw |-> NoError,
                                                 watchFailed |-> ~watchOk,
                                                 effective |-> TRUE])
    /\ UNCHANGED <<options, aborted, tasks, cbLog, files, fsLog>>

\* stop() that aborts and keeps the controller
stopKeepsController ==
    /\ Len(calls) < MaxCalls
    /\ calls' = Append(calls, [op |-> "stop", threw |-> NoError,
                               watchFailed |-> FALSE,
                               effective |-> abortController # 0])
    /\ aborted' = IF abortController # 0 /\ abortController \notin aborted
                    THEN aborted \cup {abortController} ELSE aborted
    /\ UNCHANGED abortController
    /\ UNCHANGED <<options, observers, tasks, cbLog, fsVars>>

\* stop() that also gives up the rebuilds in flight
stopAbortsRebuilds ==
    /\ Len(calls) < MaxCalls
    /\ calls' = Append(calls, [op |-> "stop", threw |-> NoError,
                               watchFailed |-> FALSE,
                               effective |-> abortController # 0])
    /\ IF abortController # 0
         THEN /\ aborted' = aborted \cup {abortController}
              /\ abortController' = 0
         ELSE UNCHANGED <<aborted, abortController>>
    /\ tasks' = [t \in 1..Len(tasks) |->
                   IF tasks[t].pc = "await" THEN [tasks[t] EXCEPT !.pc = "returned"]
                   ELSE tasks[t]]
    /\ UNCHANGED <<options, observers, cbLog, fsVars>>

\* Watcher.stop()
stop ==
    /\ Len(calls) < MaxCalls
    /\ calls' = Append(calls, [op |-> "stop", threw |-> NoError,
                               watchFailed |-> FALSE,
                               effective |-> abortController # 0])
    /\ IF abortController # 0
         THEN /\ aborted' = aborted \cup {abortController}
              /\ abortController' = 0
         ELSE UNCHANGED <<aborted, abortController>>
    /\ UNCHANGED <<options, observers, tasks, cbLog, fsVars>>

\* the FSWatchers that still observe: their signal is not aborted
LiveObservers == observers \ aborted

NoTask ==
    [pc |-> "returned", filename |-> Null, filePath |-> <<>>, ext |-> <<>>,
     pending |-> NoValue, failure |-> NoError, outputPath |-> <<>>,
     written |-> FALSE, exists |-> FALSE, wroteAt |-> 0]

\* the catch block of handleChange for the task numbered t: onError, if
\* given, is called with the error and the template path; errorThrows:
\* whether that callback throws, which rejects the promise of handleChange
Catch(task, t, error, log, errorThrows) ==
    [task |-> [task EXCEPT !.failure = error,
                           !.pc = IF options.onError /\ errorThrows
                                    THEN "rejected" ELSE "done"],
     cbLog |-> IF options.onError
                 THEN Append(log, [cb |-> "onError", task |-> t, error |-> error,
                                   arg |-> task.filePath, isRunning |-> isRunning])
                 ELSE log]

\* handleChange without the test that the file exists
handleChangeStartNoExists(filename, exists, errorThrows) ==
    LET t == Len(tasks) + 1
        filePath == IF filename.null THEN <<>>
                    ELSE pathJoin(options.templateDir, filename.v)
        ext == toLowerCase(extname(filePath))
        engine == resolveEngine(customEngines, options.engine)
        task == [NoTask EXCEPT !.filename = filename, !.filePath = filePath,
                               !.ext = ext, !.exists = exists]
    IN  IF filename.null \/ ext \notin options.extensions
          THEN /\ tasks' = Append(tasks, task)
               /\ UNCHANGED cbLog
        ELSE IF ~engine.renderFile
          THEN LET c == Catch(task, t, Error("TypeError", t), cbLog, errorThrows)
               IN  /\ tasks' = Append(tasks, c.task)
                   /\ cbLog' = c.cbLog
        ELSE /\ tasks' = Append(tasks, [task EXCEPT !.pc = "await",
                                                    !.pending = engine])
             /\ UNCHANGED cbLog

\* the 'change' listener and handleChange(filePath) up to its await;
\* filename: the name the event carries, or null; exists: whether the file
\* is on disk
handleChangeStart(filename, exists, errorThrows) ==
    \E filePath \in {IF filename.null THEN <<>>
                     ELSE pathJoin(options.templateDir, filename.v)} :
    \E ext \in {toLowerCase(extname(filePath))} :
    LET t == Len(tasks) + 1
        engine == resolveEngine(customEngines, options.engine)
        task == [NoTask EXCEPT !.filename = filename, !.filePath = filePath,
                               !.ext = ext, !.exists = exists]
    IN  IF filename.null \/ ext \notin options.extensions \/ ~exists
          THEN /\ tasks' = Append(tasks, task)
               /\ UNCHANGED cbLog
        ELSE IF ~engine.renderFile
          THEN LET c == Catch(task, t, Error("TypeError", t), cbLog, errorThrows)
               IN  /\ tasks' = Append(tasks, c.task)
                   /\ cbLog' = c.cbLog
        ELSE /\ tasks' = Append(tasks, [task EXCEPT !.pc = "await",
                                                    !.pending = engine])
             /\ UNCHANGED cbLog

MaxRebuilds == 2

\* a change event of a live FSWatcher, the events so far being fewer than
\* limit
ChangeEventWithin(limit, filename, exists, errorThrows) ==
    /\ LiveObservers # {}
    /\ Len(tasks) < limit
    /\ handleChangeStart(filename, exists, errorThrows)
    /\ UNCHANGED <<options, abortController, aborted, observers, calls, fsVars>>

\* a change event of a live FSWatcher
ChangeEvent(filename, exists, errorThrows) ==
    ChangeEventWithin(MaxEvents, filename, exists, errorThrows)

\* the output path of a template: its path relative to templateDir with the
\* extension replaced by ".html", under outputDir
WatcherOutputPath(filePath, ext) ==
    LET relativePath == pathRelative(options.templateDir, filePath)
        outputName == stringReplace(relativePath, ext, <<".", "h", "t", "m", "l">>)
    IN  pathJoin(options.outputDir, outputName)

\* what the renderFile call of the handleChange numbered t resolves to: the
\* text the engine renders from the template file as that call reads it
RenderedFor(by, fileName, t) == [by |-> by, fileName |-> fileName, call |-> t]

\* history: the number of writeFileSync calls the rebuilds have completed
WritesDone == Cardinality({n \in 1..Len(tasks) : tasks[n].written})

\* handleChange resumes after `await builder.renderFile(...)`: the outcomes
\* of the render, of mkdirSync and of writeFileSync, and whether the
\* onRebuild and onError callbacks throw; outputPath and outputDir are the
\* constants of lines 94 and 96, computed once
handleChangeResume(t, renderOk, mkdirOk, writeOk, rebuildThrows, errorThrows) ==
    \E outputPath \in {WatcherOutputPath(tasks[t].filePath, tasks[t].ext)} :
    \E outputDir \in {dirname(outputPath)} :
    LET task == tasks[t]
        made == IF renderOk /\ (outputDir \in dirs \/ mkdirOk)
                  THEN dirs \cup {outputDir} ELSE dirs
        wrote == renderOk /\ outputDir \in made /\ writeOk
        rebuilt == [task EXCEPT !.outputPath = IF renderOk THEN outputPath ELSE <<>>,
                                !.written = wrote,
                                !.wroteAt = IF wrote THEN WritesDone + 1 ELSE 0]
        logged == IF wrote /\ options.onRebuild
                    THEN Append(cbLog, [cb |-> "onRebuild", task |-> t,
                                        error |-> NoError, arg |-> outputPath,
                                        isRunning |-> isRunning])
                    ELSE cbLog
        error == IF ~renderOk THEN Error("render", t)
                 ELSE IF outputDir \notin made THEN Error("mkdir", t)
                 ELSE IF ~writeOk THEN Error("write", t)
                 ELSE IF options.onRebuild /\ rebuildThrows THEN Error("onRebuild", t)
                 ELSE NoError
        c == Catch(rebuilt, t, error, logged, errorThrows)
    IN  /\ task.pc = "await"
        /\ dirs' = made
        /\ files' = IF wrote
                      THEN WriteFile(files, outputPath,
                                     RenderedFor(task.pending.id, task.filePath, t))
                      ELSE files
        /\ IF error = NoError
             THEN /\ tasks' = [tasks EXCEPT ![t] = [rebuilt EXCEPT !.pc = "done"]]
                  /\ cbLog' = logged
             ELSE /\ tasks' = [tasks EXCEPT ![t] = c.task]
                  /\ cbLog' = c.cbLog
        /\ UNCHANGED <<options, abortController, aborted, observers, calls, fsLog>>

\* the 'error' listener: an error of an FSWatcher other than the abort error
\* goes to onError with an empty path
ErrorEvent(code) ==
    /\ observers # {}
    /\ Len(cbLog) < MaxEvents
    /\ IF code # "ABORT_ERR" /\ options.onError
         THEN cbLog' = Append(cbLog, [cb |-> "onError", task |-> 0,
                                      error |-> Error(code, 0), arg |-> <<>>,
                                      isRunning |-> isRunning])
         ELSE UNCHANGED cbLog
    /\ UNCHANGED <<options, abortController, aborted, observers, tasks, calls, fsVars>>

\* the names change events carry
FileNames ==
    { String(<<"a", ".", "e", "j", "s">>),
      String(<<"s", "/", "c", ".", "h", "b", "s">>),
      String(<<"b", ".", "t", "x", "t">>),
      Null }

\* names of templates on disk: an upper-case extension, and a directory
\* whose name holds the text of the extension
OutputPathNames ==
    { String(<<"a", ".", "e", "j", "s">>),
      String(<<"a", ".", "E", "J", "S">>),
      String(<<"d", ".", "h", "b", "s", "/", "c", ".", "h", "b", "s">>) }

notWatcherVars == <<registryVars, scaffoldVars, pipelineVars, helperVars>>

Start ==
    /\ \E mkdirOk \in BOOLEAN, watchOk \in BOOLEAN : start(mkdirOk, watchOk)
    /\ UNCHANGED notWatcherVars
Stop ==
    /\ stop
    /\ UNCHANGED notWatcherVars
\* the change events: each name for a file on disk, one template that has
\* been removed, and an event without a name
ChangeArgs ==
    {<<filename, TRUE>> : filename \in FileNames \ {Null}}
        \cup {<<String(<<"a", ".", "e", "j", "s">>), FALSE>>, <<Null, FALSE>>}

Change ==
    /\ \E arg \in ChangeArgs, errorThrows \in BOOLEAN :
          ChangeEvent(arg[1], arg[2], errorThrows)
    /\ UNCHANGED notWatcherVars
Rebuild ==
    /\ \E t \in {n \in 1..Len(tasks) : tasks[n].pc = "await"} :
          \E failing \in {"none", "render", "mkdir", "write", "onRebuild"},
             errorThrows \in BOOLEAN :
             handleChangeResume(t, failing # "render", failing # "mkdir",
                                failing # "write", failing = "onRebuild",
                                errorThrows)
    /\ UNCHANGED notWatcherVars
\* change events for templates on disk, several of them in flight
ChangeAgain ==
    /\ \E filename \in {String(<<"a", ".", "e", "j", "s">>),
                         String(<<"s", "/", "c", ".", "h", "b", "s">>)} :
          ChangeEventWithin(MaxRebuilds, filename, TRUE, FALSE)
    /\ UNCHANGED notWatcherVars
\* change events for the templates of OutputPathNames
ChangeOutputPath ==
    /\ \E filename \in OutputPathNames : ChangeEvent(filename, TRUE, FALSE)
    /\ UNCHANGED notWatcherVars
WatcherError ==
    /\ \E code \in {"ABORT_ERR", "EPERM"} : ErrorEvent(code)
    /\ UNCHANGED notWatcherVars

(***************************************************************************)
(* CommandHelper (command_helper.ts)                                       *)
(***************************************************************************)

\* \s
WhiteSpace == {" ", "\t", "\n"}

\* FORBIDDEN_PATTERNS[k].test(cmd)
PatternTest(k, cmd) ==
    IF k = 1 THEN \E i \in 1..Len(cmd) : cmd[i] \in {";", "&", "|", GraveAccent, "$"}
    ELSE IF k = 2 THEN Contains(cmd, <<"$", "(">>)
    ELSE IF k = 3
      THEN \E i \in 1..Len(cmd) : \E j \in (i + 1)..Len(cmd) :
              /\ cmd[i] = ">"
              /\ cmd[j] = "/"
              /\ \A m \in (i + 1)..(j - 1) : cmd[m] \in WhiteSpace
    ELSE Contains(cmd, <<".", ".", "/">>)

\* FORBIDDEN_PATTERNS, by index
FORBIDDEN_PATTERNS == 1..4

\* the first (command, pattern) pair the two nested loops of run find, as
\* <<index of the command, index of the pattern>>, or <<0, 0>>
FirstForbidden(command) ==
    LET hits == {c \in 1..Len(command) :
                    \E k \in FORBIDDEN_PATTERNS : PatternTest(k, command[c])}
    IN  IF hits = {} THEN <<0, 0>>
        ELSE LET c == CHOOSE h \in hits : \A g \in hits : h =< g
                 ks == {k \in FORBIDDEN_PATTERNS : PatternTest(k, command[c])}
             IN  <<c, CHOOSE k \in ks : \A g \in ks : k =< g>>

\* command.join with the separator " && "
RECURSIVE JoinAnd(_)
JoinAnd(command) ==
    IF command = <<>> THEN <<>>
    ELSE IF Len(command) = 1 THEN command[1]
    ELSE command[1] \o <<" ", "&", "&", " ">> \o JoinAnd(Tail(command))

MaxRuns == 1

\* a promise CommandHelper.run returns
RunPromise(directory, command, state, value) ==
    [directory |-> directory, command |-> command, state |-> state, value |-> value]

\* Promise.reject(new Error(message))
RunRejected(directory, command, message) ==
    /\ runs' = Append(runs, RunPromise(directory, command, "rejected", message))
    /\ UNCHANGED spawned

\* run in which only the first command is tested against the patterns
runChecksFirstOnly(directory, command) ==
    /\ Len(runs) < MaxRuns
    /\ IF directory.null \/ directory.v = <<>>
         THEN RunRejected(directory, command, <<"directory is required">>)
       ELSE IF Len(command) = 0
         THEN RunRejected(directory, command, <<"at least one command is required">>)
       ELSE IF FirstForbidden(Take(command, 1)) # <<0, 0>>
         THEN RunRejected(directory, command,
                          <<"potentially unsafe command rejected">>
                              \o FirstForbidden(Take(command, 1)))
       ELSE /\ runs' = Append(runs, RunPromise(directory, command, "pending", <<>>))
            /\ spawned' = Append(spawned,
                                 [cmd |-> JoinAnd(command), cwd |-> directory.v,
                                  promise |-> Len(runs) + 1, exited |-> FALSE,
                                  err |-> FALSE, stdout |-> <<>>, stderr |-> <<>>])

\* CommandHelper.run(directory, ...command), up to the call of exec
run(directory, command) ==
    /\ Len(runs) < MaxRuns
    /\ IF directory.null \/ directory.v = <<>>
         THEN RunRejected(directory, command, <<"directory is required">>)
       ELSE IF Len(command) = 0
         THEN RunRejected(directory, command, <<"at least one command is required">>)
       ELSE IF FirstForbidden(command) # <<0, 0>>
         THEN RunRejected(directory, command,
                          <<"potentially unsafe command rejected">>
                              \o FirstForbidden(command))
       ELSE /\ runs' = Append(runs, RunPromise(directory, command, "pending", <<>>))
            /\ spawned' = Append(spawned,
                                 [cmd |-> JoinAnd(command), cwd |-> directory.v,
                                  promise |-> Len(runs) + 1, exited |-> FALSE,
                                  err |-> FALSE, stdout |-> <<>>, stderr |-> <<>>])

\* the callback of exec, called when process p has ended: err is set when the
\* process could not be run or exited with a non-zero code
ExecCallback(p, err, stdout, stderr) ==
    /\ ~spawned[p].exited
    /\ spawned' = [spawned EXCEPT ![p] =
                      [@ EXCEPT !.exited = TRUE, !.err = err,
                                !.stdout = stdout, !.stderr = stderr]]
    /\ runs' = [runs EXCEPT ![spawned[p].promise] =
                   IF err THEN [@ EXCEPT !.state = "rejected", !.value = <<"err">>]
                   ELSE IF stderr # <<>>
                     THEN [@ EXCEPT !.state = "fulfilled", !.value = stderr]
                   ELSE [@ EXCEPT !.state = "fulfilled", !.value = stdout]]

\* the directory arguments: undefined, '', '.' and 'd'
RunDirectories == {Null, String(<<>>), String(<<".">>), String(<<"d">>)}

\* the command strings: two that pass the patterns and one for each pattern
RunCommands ==
    { <<"l", "s">>, <<"a", ">", "b">>,
      <<"a", ";", "b">>, <<"$", "(", "x", ")">>,
      <<"a", ">", " ", "/", "x">>, <<".", ".", "/", "x">> }

\* the argument lists: none, one or two commands
RunCommandLists ==
    {<<>>} \cup {<<c>> : c \in RunCommands}
           \cup {<<c, d>> : c \in RunCommands, d \in RunCommands}

\* what a process writes to stdout and to stderr
Outputs == {<<>>, <<"o">>, <<"e">>}

notHelperVars == <<registryVars, fsVars, scaffoldVars, pipelineVars, watcherVars>>

Run ==
    /\ \E directory \in RunDirectories, command \in RunCommandLists :
          run(directory, command)
    /\ UNCHANGED <<replaced, notHelperVars>>

Exit ==
    /\ \E p \in 1..Len(spawned), err \in BOOLEAN,
          stdout \in Outputs, stderr \in Outputs :
          ExecCallback(p, err, stdout, stderr)
    /\ UNCHANGED <<replaced, notHelperVars>>

(***************************************************************************)
(* StringHelper.replace, applied                                           *)
(***************************************************************************)

NoReplace == [line |-> <<>>, token |-> <<>>, value |-> <<>>, result |-> <<>>,
              called |-> FALSE]

\* the lines, tokens and values handed to StringHelper.replace
ReplaceLines ==
    { <<>>, <<"a">>, <<"a", "b", "a">>, <<"$", "1", ".", "0">>, <<"(", "a", ")", "a">>,
      <<"a", "a", "a">>, <<"1", "x", "0">> }
ReplaceTokens == { <<"a">>, <<"a", "a">>, <<"$", "1">>, <<"1", ".", "0">>, <<"(", "a", ")">>, <<".">> }
ReplaceValues == { <<>>, <<"v">>, <<"a">>, <<"$", "2">>, <<"(", ".", ")">>, <<"$", "&">>, <<"$", "$">> }

Replace ==
    /\ \E line \in ReplaceLines, token \in ReplaceTokens, value \in ReplaceValues :
          replaced' = [line |-> line, token |-> token, value |-> value,
                       result |-> replace(line, token, value), called |-> TRUE]
    /\ UNCHANGED <<runs, spawned, notHelperVars>>

(***************************************************************************)
(* Specifications                                                          *)
(***************************************************************************)

InitRegistry ==
    /\ customEngines = <<>>
    /\ registerResult = "none"
    /\ registerCount = 0
    /\ registerLog = <<>>
    /\ lastRender = NoRender

InitHelpers ==
    /\ replaced = NoReplace
    /\ runs = <<>>
    /\ spawned = <<>>

InitFs ==
    /\ dirs = InitDirs
    /\ files = <<>>
    /\ fsLog = <<>>

InitScaffold == scaffold = ScaffoldIdle

InitPipeline ==
    /\ apiCalls = 0
    /\ content = Null
    /\ contentPromise = 0
    /\ transforms = <<>>
    /\ promises = <<>>
    /\ executions = <<>>
    /\ lastCall = [op |-> "none", ok |-> FALSE, sets |-> NoSource]
    /\ lastSet = NoSource

\* the idle watcher the other specifications leave alone
InitWatcher ==
    /\ options \in WatcherOptions
    /\ abortController = 0
    /\ aborted = {}
    /\ observers = {}
    /\ tasks = <<>>
    /\ cbLog = <<>>
    /\ calls = <<>>

InitWatcherIdle ==
    /\ InitWatcher
    /\ options.engine = "EJS" /\ options.onError

Init == InitRegistry /\ InitFs /\ InitScaffold /\ InitPipeline /\ InitWatcherIdle /\ InitHelpers

InitW == InitRegistry /\ InitFs /\ InitScaffold /\ InitPipeline /\ InitWatcher /\ InitHelpers

NextWatcher == Start \/ Stop \/ Change \/ Rebuild \/ WatcherError

SpecWatcher == InitW /\ [][NextWatcher]_vars

NextRegistry == RegisterEngine \/ BuilderRender

SpecRegistry == Init /\ [][NextRegistry]_vars

NextRebuilds == Start \/ ChangeAgain \/ Rebuild

SpecRebuilds == Init /\ [][NextRebuilds]_vars

NextOutputPath == Start \/ Stop \/ ChangeOutputPath \/ Rebuild

SpecOutputPath == Init /\ [][NextOutputPath]_vars

NextFromTemplate == FromTemplateOf

SpecFromTemplate == Init /\ [][NextFromTemplate]_vars

NextCommand == Run \/ Exit

SpecCommand == Init /\ [][NextCommand]_vars

NextReplace == Replace

SpecReplace == Init /\ [][NextReplace]_vars

NextScaffold == ScaffoldFrom \/ ScaffoldResume \/ RegisterEngine

SpecScaffold == Init /\ [][NextScaffold]_vars

NextPipeline ==
    \/ FromString
    \/ FromFile
    \/ FromTemplate
    \/ FromTemplateString
    \/ Transform
    \/ Settle
    \/ Execute
    \/ ResumeSource
    \/ ResumeTransform

SpecPipeline == Init /\ [][NextPipeline]_vars

\* a pipeline that is given string and template sources and transforms, and
\* is run by writeTo
NextWriteTo ==
    \/ FromString
    \/ FromTemplateByExtension
    \/ Transform
    \/ Settle
    \/ ResumeSource
    \/ ResumeTransform
    \/ WriteTo
    \/ ResumeWriteTo

SpecWriteTo == Init /\ [][NextWriteTo]_vars

(***************************************************************************)
(* Scaffold: properties                                                    *)
(***************************************************************************)

\* s with every occurrence of the non-empty text t replaced by exactly v,
\* found by comparing characters from left to right
RECURSIVE LiteralReplaceAll(_, _, _, _)
LiteralReplaceAll(s, t, v, i) ==
    IF i >= Len(s) THEN <<>>
    ELSE IF OccursAt(s, t, i) THEN v \o LiteralReplaceAll(s, t, v, i + Len(t))
    ELSE <<s[i + 1]>> \o LiteralReplaceAll(s, t, v, i + 1)

\* pattern with every {{key}} replaced by the value of key, key after key
RECURSIVE SubstituteKeys(_, _)
SubstituteKeys(pattern, variables) ==
    IF variables = <<>> THEN pattern
    ELSE SubstituteKeys(
             LiteralReplaceAll(pattern,
                               <<"{", "{">> \o Head(variables).key \o <<"}", "}">>,
                               Head(variables).value, 0),
             Tail(variables))

\* the output path of structure entry i of manifest m, as Scaffold.from computes it
EntryPath(m, i) ==
    pathJoin(resolveVariables(m.outputDir, m.variables),
             resolveVariables(m.structure[i].output, m.variables))

ScaffoldCalled == scaffold.pc # "idle"

\* C4: a dry run returns one path per structure entry with dryRun true, and
\* creates no directory, writes no file and renders no template
C4_DryRunNoSideEffects ==
    (ScaffoldCalled /\ scaffold.dryRun) =>
        /\ scaffold.pc = "returned"
        /\ scaffold.result.dryRun = TRUE
        /\ Len(scaffold.result.files) = Len(scaffold.options.structure)
        /\ dirs = InitDirs
        /\ files = <<>>
        /\ fsLog = <<>>

\* a dry run of a manifest with several entries whose directory is missing
C4_Witness ==
    /\ scaffold.pc = "returned"
    /\ scaffold.dryRun
    /\ Len(scaffold.result.files) = 3
    /\ dirname(scaffold.result.files[1]) \notin dirs

\* C5 as stated: each recorded path is the outputDir pattern with every
\* {{key}} replaced by the value of key, joined (path.join) with the output
\* pattern of the entry resolved the same way
C5_EveryKeyReplacedByItsValue ==
    ScaffoldCalled =>
        \A i \in 1..Len(scaffold.createdFiles) :
            scaffold.createdFiles[i] =
                pathJoin(SubstituteKeys(scaffold.options.outputDir,
                                        scaffold.options.variables),
                         SubstituteKeys(scaffold.options.structure[i].output,
                                        scaffold.options.variables))

\* text as characters that are marked when a substitution has inserted them
Marked(text, inserted) == [i \in 1..Len(text) |-> [ch |-> text[i], inserted |-> inserted]]

\* true iff token occurs in marked at 0-based index i, in characters of the
\* pattern itself
OccursUnmarkedAt(marked, token, i) ==
    /\ i + Len(token) =< Len(marked)
    /\ \A j \in 1..Len(token) :
          marked[i + j].ch = token[j] /\ ~marked[i + j].inserted

\* one pass for one key: every occurrence of token that no earlier
\* substitution has inserted is replaced by value
RECURSIVE ReplaceUnmarked(_, _, _, _)
ReplaceUnmarked(marked, token, value, i) ==
    IF i >= Len(marked) THEN <<>>
    ELSE IF OccursUnmarkedAt(marked, token, i)
      THEN Marked(value, TRUE) \o ReplaceUnmarked(marked, token, value, i + Len(token))
    ELSE <<marked[i + 1]>> \o ReplaceUnmarked(marked, token, value, i + 1)

\* one pass per key, in the order of variables, none of them over text that
\* an earlier pass has inserted
RECURSIVE SinglePassPerKey(_, _)
SinglePassPerKey(marked, variables) ==
    IF variables = <<>> THEN [i \in 1..Len(marked) |-> marked[i].ch]
    ELSE SinglePassPerKey(
             ReplaceUnmarked(marked,
                             <<"{", "{">> \o Head(variables).key \o <<"}", "}">>,
                             Head(variables).value, 0),
             Tail(variables))

\* no value of variables holds a "$"
DollarFree(variables) ==
    \A i \in 1..Len(variables) : ~Contains(variables[i].value, <<"$">>)

\* C26 as stated: interpolation is one pass per key in the order of
\* variables, and text inserted as the value of an earlier key is never
\* replaced when a later key is processed
C26_InsertedTextNotRescanned ==
    (ScaffoldCalled /\ DollarFree(scaffold.options.variables)) =>
        \A i \in 1..Len(scaffold.createdFiles) :
            scaffold.createdFiles[i] =
                pathJoin(SinglePassPerKey(Marked(scaffold.options.outputDir, FALSE),
                                          scaffold.options.variables),
                         SinglePassPerKey(Marked(scaffold.options.structure[i].output, FALSE),
                                          scaffold.options.variables))

\* C29 as stated: every entry of a Scaffold.from call is rendered by the
\* engine the engine name of the manifest resolved to when the call
\* started, whatever registerEngine calls are made between two entries
C29_OneEnginePerCall ==
    \A k \in 1..Len(fsLog) :
        fsLog[k].op = "render" => fsLog[k].by = scaffold.engineAtStart.id

\* the renders and writes of the call, in the order in which they happened
RenderWriteLog == SelectSeq(fsLog, LAMBDA e : e.op \in {"render", "write"})

\* C6: the entries are rendered and written strictly in order, one at a time
\* (render 1, write 1, render 2, write 2, ...), and on return files[i] is the
\* path of structure[i]
C6_EntriesInOrder ==
    /\ \A k \in 1..Len(RenderWriteLog) :
          /\ RenderWriteLog[k].at = (k + 1) \div 2
          /\ RenderWriteLog[k].op = (IF k % 2 = 1 THEN "render" ELSE "write")
    /\ scaffold.pc = "returned" =>
          /\ Len(scaffold.result.files) = Len(scaffold.options.structure)
          /\ \A i \in 1..Len(scaffold.result.files) :
                scaffold.result.files[i] = EntryPath(scaffold.options, i)

\* a call that has rendered and written three entries has returned
C6_Witness ==
    /\ scaffold.pc = "returned"
    /\ ~scaffold.dryRun
    /\ Len(RenderWriteLog) = 6
    /\ scaffold.result.files[1] # scaffold.result.files[2]

\* the last entry before i that has the output path of entry j
LastWriter(m, j, i) ==
    CHOOSE k \in j..(i - 1) :
        /\ EntryPath(m, k) = EntryPath(m, j)
        /\ \A l \in (k + 1)..(i - 1) : EntryPath(m, l) # EntryPath(m, j)

\* C7: when entry i fails the call rejects with the error of entry i, the
\* files of the entries before i are on disk with their rendered content, and
\* nothing of entry i is written nor anything of a later entry rendered or written
C7_FailFastNoRollback ==
    scaffold.pc = "rejected" =>
        LET i == scaffold.idx
            m == scaffold.options
        IN  /\ scaffold.error.at = i
            /\ scaffold.error.kind \in {"mkdir", "TypeError", "render", "write"}
            /\ \A j \in 1..(i - 1) :
                  /\ EntryPath(m, j) \in DOMAIN files
                  /\ files[EntryPath(m, j)].fileName =
                        pathJoin(m.templateDir, m.structure[LastWriter(m, j, i)].template)
            /\ \A k \in 1..Len(fsLog) :
                  /\ fsLog[k].at =< i
                  /\ fsLog[k].op = "write" => fsLog[k].at < i
            /\ scaffold.createdFiles = [j \in 1..(i - 1) |-> EntryPath(m, j)]

\* the third entry fails after two files were written
C7_Witness ==
    /\ scaffold.pc = "rejected"
    /\ scaffold.idx = 3
    /\ scaffold.error.kind \in {"render", "write"}
    /\ Cardinality(DOMAIN files) = 2

(***************************************************************************)
(* Pipeline: properties                                                    *)
(***************************************************************************)

Frames == {executions[e] : e \in 1..Len(executions)}

RejectedNoContent(f) == f.pc = "rejected" /\ f.error = NoContentError

\* C8: execute() rejects with 'Pipeline has no content' exactly when no
\* source had been set when it was called, whatever transforms are
\* registered; it then invokes no transform; an empty string is a source
C8_NoContentIffNoSource ==
    \A f \in Frames :
        /\ RejectedNoContent(f) <=> f.lastSetAtStart = NoSource
        /\ f.error = NoContentError => f.trace = <<>>

\* with a transform registered, one execute() was rejected for want of a
\* source and another one ran on the empty string
C8_Witness ==
    /\ transforms # <<>>
    /\ \E f \in Frames : RejectedNoContent(f) /\ f.lastCallAtStart.op = "none"
    /\ \E f \in Frames :
          /\ f.lastSetAtStart = ContentSource(<<>>)
          /\ f.pc = "resolved"
          /\ Len(f.trace) = 2

\* the content and the pending render are never both set
OneSourceActive == ~(~content.null /\ contentPromise # 0)

\* the frame took the source src, and its content is the content of src
ResolvesFrom(f, src) ==
    /\ f.source = src
    /\ src.kind = "content" => f.input = src.v
    /\ (src.kind = "promise" /\ f.pc \in {"awaitTransform", "resolved"}) =>
          f.input = RenderedText(promises[src.promise].by, promises[src.promise].of)

\* C9 as stated: at most one source is active, and execute() takes its
\* content from the most recent from...() call made before it
C9_MostRecentCallOnly ==
    /\ OneSourceActive
    /\ \A f \in Frames :
          f.lastCallAtStart.op # "none" => ResolvesFrom(f, f.lastCallAtStart.sets)

\* C9 amended: at most one source is active, and execute() takes its content
\* from the most recent from...() call that returned; a call that throws
\* leaves the source as it was
C9_MostRecentReturnedCallOnly ==
    /\ OneSourceActive
    /\ \A f \in Frames : ResolvesFrom(f, f.lastSetAtStart)

\* a render was pending when fromString replaced it, and execute() ran on
\* the string
C9_Witness ==
    /\ promises # <<>>
    /\ contentPromise = 0
    /\ \E f \in Frames :
          /\ f.lastCallAtStart.op = "fromString"
          /\ f.pc = "resolved"
          /\ f.source.kind = "content"

\* the calls and returns of one execute() alternate, call j is the j-th
\* registered transform, it gets the source content (j = 1) or what call
\* j - 1 returned, and the result is what the last call returned
TraceInOrder(f) ==
    /\ \A j \in 1..Len(f.trace) :
          IF j % 2 = 1
            THEN /\ f.trace[j].ev = "call"
                 /\ f.trace[j].fn = transforms[(j + 1) \div 2]
                 /\ f.trace[j].v = (IF j = 1 THEN f.input ELSE f.trace[j - 1].v)
            ELSE /\ f.trace[j].ev = "return"
                 /\ f.trace[j].fn = f.trace[j - 1].fn
    /\ f.pc = "resolved" =>
          /\ Len(f.trace) % 2 = 0
          /\ f.result = (IF f.trace = <<>> THEN f.input ELSE f.trace[Len(f.trace)].v)

\* an execute() that resolves in this step has run every registered transform
ResolvesAfterAll ==
    \A e \in 1..Len(executions') :
        (/\ executions'[e].pc = "resolved"
         /\ (e > Len(executions) \/ executions[e].pc # "resolved"))
            => Len(executions'[e].trace) = 2 * Len(transforms)

\* C10: execute() applies the registered transforms in registration order,
\* one at a time, each on the output of the one before, the first on the
\* source content, and resolves to the output of the last
C10_TransformsInOrder ==
    /\ [](\A f \in Frames : TraceInOrder(f))
    /\ [][ResolvesAfterAll]_vars

\* an execute() has run two different transforms and resolved
C10_Witness ==
    \E f \in Frames :
        /\ f.pc = "resolved"
        /\ Len(f.trace) = 4
        /\ f.trace[1].fn # f.trace[3].fn
        /\ f.result = f.input \o <<f.trace[1].fn, f.trace[3].fn>>

\* the names of the transforms a frame has called, in order
CalledFns(f) == [j \in 1..((Len(f.trace) + 1) \div 2) |-> f.trace[2 * j - 1].fn]

\* C28 as stated: an execute() call that has resolved has applied exactly
\* the transforms that were registered when it began, whatever transform()
\* calls were made while it was suspended
C28_TransformsFixedAtStart ==
    \A e \in 1..Len(executions) :
        executions[e].pc = "resolved"
            => CalledFns(executions[e]) = executions[e].transformsAtStart

\* C12 as stated, for a template source: every execute() performs a render
\* of its own, so no two executions take their content from the same render
C12_RenderPerExecute ==
    \A e1 \in 1..Len(executions), e2 \in 1..Len(executions) :
        (e1 < e2 /\ executions[e1].source.kind = "promise"
                 /\ executions[e2].source.kind = "promise")
            => executions[e1].source.promise # executions[e2].source.promise

\* renders are started and settled outside execute(): a step of an
\* execution leaves the render promises alone
ExecuteStartsNoRender == (executions' # executions) => (promises' = promises)

\* C12 amended: every execute() runs the transforms itself, each one once,
\* and two executions of the same source through the same transforms give
\* the same output; a template source is rendered once, by the from...()
\* call, and every execute() awaits that one render
C12_TransformsRerunRenderShared ==
    /\ [](\A f \in Frames :
            /\ f.pc = "resolved" =>
                  /\ Len(f.trace) = 2 * f.k
                  /\ f.result = f.input \o CalledFns(f)
            /\ (f.source.kind = "promise" /\ f.pc \in {"awaitTransform", "resolved"}) =>
                  /\ promises[f.source.promise].state = "fulfilled"
                  /\ f.input = RenderedText(promises[f.source.promise].by,
                                            promises[f.source.promise].of))
    /\ [](\A f \in Frames, g \in Frames :
            (/\ f.pc = "resolved" /\ g.pc = "resolved"
             /\ f.source = g.source
             /\ CalledFns(f) = CalledFns(g)) => f.result = g.result)
    /\ [][ExecuteStartsNoRender]_vars

\* two executions of one template source, each through a transform, have
\* resolved from the one render
C12_Witness ==
    /\ Len(executions) = 2
    /\ Len(promises) = 1
    /\ \A e \in 1..2 :
          /\ executions[e].pc = "resolved"
          /\ executions[e].source = PromiseSource(1)
          /\ Len(executions[e].trace) = 2
    /\ executions[1].result = executions[2].result

\* a writeTo() that returns in this step has written, to its path, the string
\* its execute() resolved to, in a directory that exists, and returns it
WriteToWritesResult ==
    \A e \in 1..Len(executions) :
        (executions[e].wpc = "await" /\ executions'[e].wpc = "returned") =>
            LET f == executions'[e]
            IN  /\ f.pc = "resolved"
                /\ f.result = executions[e].result
                /\ f.result = (IF f.trace = <<>> THEN f.input
                               ELSE f.trace[Len(f.trace)].v)
                /\ f.returned = f.result
                /\ f.writeTo.v \in DOMAIN files'
                /\ files'[f.writeTo.v] = f.result
                /\ dirname(f.writeTo.v) \in dirs'

\* C11: writeTo(path) writes to path exactly the string execute() produced
\* (the transformed content), creating the missing parent directory, and
\* returns that string
C11_WriteToWritesResult == [][WriteToWritesResult]_vars

\* a writeTo() into a directory that was missing has written and returned
\* content that a transform changed
C11_Witness ==
    \E f \in Frames :
        /\ f.wpc = "returned"
        /\ f.trace # <<>>
        /\ f.returned # f.input
        /\ dirname(f.writeTo.v) \notin InitDirs
        /\ files[f.writeTo.v] = f.returned

(***************************************************************************)
(* fromTemplate: properties                                                *)
(***************************************************************************)

\* the engine name of each template path, by its extension
ExtensionTable ==
    { << <<"a", ".", "e", "j", "s">>, "EJS" >>,
      << <<"a", ".", "h", "b", "s">>, "HANDLEBARS" >>,
      << <<"t", "/", "a", ".", "h", "a", "n", "d", "l", "e", "b", "a", "r", "s">>,
         "HANDLEBARS" >>,
      << <<"a", ".", "p", "u", "g">>, "PUG" >>,
      << <<"a", ".", "j", "a", "d", "e">>, "PUG" >>,
      << <<"a", ".", "t", "x", "t">>, "HANDLEBARS" >>,
      << <<"c">>, "HANDLEBARS" >>,
      << <<"t", ".", "e", "j", "s", "/", "c">>, "HANDLEBARS" >> }

\* the promise the from...() call of this step has created
NewPromise == promises'[Len(promises')]

\* a fromTemplate call without an engine name binds the engine of the
\* extension, one with an engine name binds that name
EngineFromExtension ==
    /\ \A row \in ExtensionTable :
          fromTemplate(row[1], "") =>
              /\ Len(promises') = Len(promises) + 1
              /\ NewPromise.of = row[1]
              /\ NewPromise.templateHandler = row[2]
    /\ \A a \in {b \in TemplateEngineArgs : b.engine # ""} :
          fromTemplate(a.templatePath, a.engine) =>
              /\ Len(promises') = Len(promises) + 1
              /\ NewPromise.of = a.templatePath
              /\ NewPromise.templateHandler = a.engine

\* C21: fromTemplate without an engine name selects the engine from the
\* extension of the template file (.ejs: EJS; .hbs, .handlebars: HANDLEBARS;
\* .pug, .jade: PUG; any other or none: HANDLEBARS), and uses the engine
\* name it is given whatever the extension
C21_EngineFromExtension ==
    /\ [](TemplatePaths = {row[1] : row \in ExtensionTable})
    /\ [][EngineFromExtension]_vars

\* a .jade template was given without an engine name and is rendered by PUG,
\* after a .ejs template that was given the name PUG
C21_Witness ==
    /\ Len(promises) = 2
    /\ promises[1].of = <<"a", ".", "e", "j", "s">>
    /\ promises[1].templateHandler = "PUG"
    /\ promises[2].of = <<"a", ".", "j", "a", "d", "e">>
    /\ promises[2].templateHandler = "PUG"
    /\ promises[2].by = "PugHelper"

(***************************************************************************)
(* Engine registry: properties                                             *)
(***************************************************************************)

\* the registerEngine calls that succeeded, in order
Registrations == SelectSeq(registerLog, LAMBDA c : c.outcome = "ok")

\* the engine most recently registered under name, or NoValue
LatestRegistered(name) ==
    LET hits == {i \in 1..Len(Registrations) : Registrations[i].name.v = name}
    IN  IF hits = {} THEN NoValue
        ELSE Registrations[CHOOSE i \in hits : \A j \in hits : j =< i].engine

\* the built-in engine of that name, or NoValue
BuiltIn(name) ==
    LET hits == {i \in 1..Len(builtInEngines) : builtInEngines[i].name = name}
    IN  IF hits = {} THEN NoValue ELSE builtInEngines[CHOOSE i \in hits : TRUE].engine

\* the names registered, each once, in the order of their first registration
RECURSIVE FirstRegistered(_)
FirstRegistered(regs) ==
    IF regs = <<>> THEN <<>>
    ELSE LET before == FirstRegistered(Take(regs, Len(regs) - 1))
             name == regs[Len(regs)].name.v
         IN  IF \E i \in 1..Len(before) : before[i] = name THEN before
             ELSE Append(before, name)

\* what the claims name as a call that must fail
InvalidRegistration(name, engine) ==
    \/ name.type # "string"
    \/ name.v = ""
    \/ engine = NoValue
    \/ ~(engine.render /\ engine.renderFile)

\* a registerEngine call that fails leaves the custom mapping as it was
FailedRegistrationChangesNothing ==
    (registerCount' # registerCount /\ registerResult' # "ok")
        => customEngines' = customEngines

\* C13: registerEngine fails exactly when the name is empty or not a string
\* or the engine lacks render or renderFile; a failed call leaves the
\* mappings unchanged, every other call succeeds and stores the engine
C13_RegisterEngineValidates ==
    /\ [](\A i \in 1..Len(registerLog) :
            (registerLog[i].outcome # "ok")
                <=> InvalidRegistration(registerLog[i].name, registerLog[i].engine))
    /\ []((registerLog # <<>> /\ registerResult = "ok") =>
            GetProperty(customEngines, registerLog[Len(registerLog)].name.v)
                = registerLog[Len(registerLog)].engine)
    /\ [][FailedRegistrationChangesNothing]_vars

\* an engine with render only was refused after another one was registered,
\* which is still the only one
C13_Witness ==
    /\ Len(registerLog) = 2
    /\ registerLog[1].outcome = "ok"
    /\ registerLog[2].engine = Engine("renderOnly", TRUE, FALSE)
    /\ registerLog[2].name.type = "string" /\ registerLog[2].name.v # ""
    /\ registerResult # "ok"
    /\ Len(customEngines) = 1

\* C14 as stated: getEngine(name) is the engine most recently registered
\* under name, else the built-in engine of that name, else not found
C14_GetEngineCustomBuiltInOrNone ==
    \A name \in HandlerNames :
        getEngine(customEngines, name) =
            (IF LatestRegistered(name) # NoValue THEN LatestRegistered(name)
             ELSE BuiltIn(name))

\* C15 as stated: getRegisteredEngines() is the built-in names followed by
\* the custom names in the order of their first registration
C15_CustomNamesInRegistrationOrder ==
    getRegisteredEngines(customEngines)
        = ObjectKeys(builtInEngines) \o FirstRegistered(Registrations)

\* C16 as stated: a renderer bound to name resolves to the custom engine of
\* that name, else the built-in one, else the default (Handlebars) engine,
\* and render and renderFile through it never fail to resolve
C16_ResolvesCustomBuiltInOrDefault ==
    /\ \A name \in HandlerNames :
          resolveEngine(customEngines, name) =
              (IF LatestRegistered(name) # NoValue THEN LatestRegistered(name)
               ELSE IF BuiltIn(name) # NoValue THEN BuiltIn(name)
               ELSE BuiltIn(TEMPLATE_HANDLERS.HANDLEBARS))
    /\ lastRender # NoRender => lastRender.outcome # NotAFunction

\* the engine registered under name now: the custom one, else the built-in
RegisteredEngine(name) ==
    IF LatestRegistered(name) # NoValue THEN LatestRegistered(name) ELSE BuiltIn(name)

\* a render or renderFile call through a renderer bound to a registered
\* engine gives what that engine's function gives for the same arguments
RendererIsTransparent ==
    (lastRender' # lastRender /\ RegisteredEngine(lastRender'.templateHandler) # NoValue)
        => lastRender'.outcome =
              EngineRender(RegisteredEngine(lastRender'.templateHandler),
                           lastRender'.of, lastRender'.isFile, lastRender'.ok)

\* C17: render and renderFile through a renderer bound to a registered
\* engine give what the same function of that engine gives for the same
\* arguments: the same text, or the same error
C17_RendererIsTransparent == [][RendererIsTransparent]_vars

\* a custom engine registered under the built-in name EJS has failed a
\* renderFile call made through a renderer bound to EJS
C17_Witness ==
    /\ LatestRegistered("EJS") # NoValue
    /\ lastRender.templateHandler = "EJS"
    /\ lastRender.isFile
    /\ lastRender.outcome.state = "rejected"
    /\ lastRender.outcome.by = LatestRegistered("EJS").id

(***************************************************************************)
(* StringHelper.replace: properties                                        *)
(***************************************************************************)

\* C18 as stated: replace(s, t, v) is s with every occurrence of t replaced
\* by exactly v, also for tokens and values that hold $ . ( )
C18_LiteralReplaceAll ==
    replaced.called =>
        replaced.result = LiteralReplaceAll(replaced.line, replaced.token, replaced.value, 0)

(***************************************************************************)
(* CommandHelper: properties                                               *)
(***************************************************************************)

\* a call the claims name as one that must be rejected
InvalidRun(directory, command) ==
    \/ directory.null \/ directory.v = <<>>
    \/ command = <<>>
    \/ \E c \in 1..Len(command) : \E k \in FORBIDDEN_PATTERNS : PatternTest(k, command[c])

\* a run call that rejects for its arguments starts no process
RejectedRunSpawnsNothing ==
    (Len(runs') = Len(runs) + 1 /\ runs'[Len(runs')].state = "rejected")
        => spawned' = spawned

\* C19: run rejects without starting a process when the directory is unset,
\* when no command is given or when any of the commands matches a forbidden
\* pattern: every command is tested before exec is called
C19_UnsafeRunSpawnsNothing ==
    /\ [](\A i \in 1..Len(runs) :
            InvalidRun(runs[i].directory, runs[i].command)
                => /\ runs[i].state = "rejected"
                   /\ runs[i].value # <<"err">>
                   /\ \A p \in 1..Len(spawned) : spawned[p].promise # i)
    /\ [](\A p \in 1..Len(spawned) :
            ~InvalidRun(runs[spawned[p].promise].directory,
                        runs[spawned[p].promise].command))
    /\ [][RejectedRunSpawnsNothing]_vars

\* two commands were given, the first passes every pattern and the second
\* matches one: the call is rejected and no process was started
C19_Witness ==
    /\ runs # <<>>
    /\ Len(runs[1].command) = 2
    /\ ~runs[1].directory.null /\ runs[1].directory.v # <<>>
    /\ \A k \in FORBIDDEN_PATTERNS : ~PatternTest(k, runs[1].command[1])
    /\ PatternTest(3, runs[1].command[2])
    /\ runs[1].state = "rejected"
    /\ spawned = <<>>

\* C20 as stated: when the command exits successfully, run resolves to its
\* stdout, and to its stderr only if stdout is empty
C20_StdoutUnlessEmpty ==
    \A p \in 1..Len(spawned) :
        (spawned[p].exited /\ ~spawned[p].err)
            => /\ runs[spawned[p].promise].state = "fulfilled"
               /\ runs[spawned[p].promise].value =
                      (IF spawned[p].stdout # <<>> THEN spawned[p].stdout
                       ELSE spawned[p].stderr)

(***************************************************************************)
(* Watcher properties                                                      *)
(***************************************************************************)

\* fs.watch has thrown inside some start()
SetupFailed == \E i \in 1..Len(calls) : calls[i].watchFailed

LastCallIs(op) == calls # <<>> /\ calls[Len(calls)].op = op

\* a call that found nothing to do changes nothing of the watcher or the
\* file system
IdempotentCalls ==
    (calls' # calls /\ ~calls'[Len(calls')].effective)
        => UNCHANGED <<abortController, aborted, observers, tasks, cbLog, fsVars>>

\* C1 as stated: as long as fs.watch has not failed, no start() or stop()
\* call has thrown, and isRunning is true exactly when the most recent call
\* was start()
C1_NeitherCallThrows ==
    ~SetupFailed =>
        /\ \A i \in 1..Len(calls) : calls[i].threw = NoError
        /\ isRunning <=> LastCallIs("start")

\* C1, amended: as long as fs.watch has not failed, stop() never throws,
\* start() throws only when it finds the watcher idle and fails to create the
\* missing output directory, isRunning is true exactly when the most recent
\* call was start() (also when that call threw), and a start() on a running
\* watcher or a stop() on an idle one changes nothing
C1_OnlyMkdirThrows ==
    /\ [](~SetupFailed =>
            /\ \A i \in 1..Len(calls) :
                  calls[i].threw # NoError =>
                      /\ calls[i].op = "start"
                      /\ calls[i].effective
                      /\ calls[i].threw = Error("mkdir", 0)
            /\ isRunning <=> LastCallIs("start"))
    /\ [][IdempotentCalls]_vars

\* start(), stop(), start() without a failure: the watcher has resumed
C1_Witness ==
    /\ [i \in 1..Len(calls) |-> calls[i].op] = <<"start", "stop", "start">>
    /\ \A i \in 1..Len(calls) : calls[i].threw = NoError /\ ~calls[i].watchFailed
    /\ isRunning
    /\ Cardinality(observers) = 2

C3_SetupFailureStaysIdle ==
    (calls # <<>> /\ calls[Len(calls)].watchFailed) =>
        /\ ~isRunning
        /\ \A j \in 1..Len(cbLog) : cbLog[j].error.kind # "watch"

\* true iff s ends with t
EndsWith(s, t) == Len(t) =< Len(s) /\ SubSeq(s, Len(s) - Len(t) + 1, Len(s)) = t

\* the configured extension the name of a change event ends with, whatever
\* its letter case, or the empty text
ConfiguredExtension(filename) ==
    LET hits == UNION { {e \in options.extensions : EndsWith(low, e)}
                          : low \in {toLowerCase(filename.v)} }
    IN  IF filename.null \/ hits = {} THEN <<>> ELSE CHOOSE e \in hits : TRUE

\* the change event of task t is one to rebuild: it names a file with a
\* configured extension that is on disk
PassesFilters(t) ==
    /\ ~tasks[t].filename.null
    /\ tasks[t].exists
    /\ ConfiguredExtension(tasks[t].filename) # <<>>

\* nothing was rendered or written for task t and no callback was called
NothingDoneFor(t) ==
    /\ tasks[t].pc = "returned"
    /\ tasks[t].pending = NoValue
    /\ ~tasks[t].written
    /\ \A j \in 1..Len(cbLog) : cbLog[j].task # t

\* a change event that is not one to rebuild writes no file, creates no
\* directory and calls no callback
IgnoredEventChangesNothing ==
    \A t \in {Len(tasks) + 1} :
        (Len(tasks') = t /\ ~PassesFilters(t)') => UNCHANGED <<files, dirs, cbLog>>

\* C22: a change event is rebuilt only if its path has a configured
\* extension and the file is on disk; for every other event nothing is
\* rendered, nothing is written and no callback is called
C22_OnlyExistingTemplatesRebuilt ==
    /\ [](\A t \in 1..Len(tasks) :
            \E rebuilt \in {PassesFilters(t)} :
                /\ ~rebuilt => NothingDoneFor(t)
                /\ rebuilt => tasks[t].pc # "returned")
    /\ [][IgnoredEventChangesNothing]_vars

\* an event for a template that is gone was ignored, with both callbacks
\* given and the watcher running
C22_Witness ==
    /\ Len(tasks) = 1
    /\ tasks[1].filename = String(<<"a", ".", "e", "j", "s">>)
    /\ ~tasks[1].exists
    /\ tasks[1].pc = "returned"
    /\ options.onRebuild /\ options.onError
    /\ isRunning
    /\ cbLog = <<>>

\* the path of a template under outputDir, its final extension swapped for
\* .html
SwappedOutputPath(filename) ==
    pathJoin(options.outputDir,
             Take(filename.v, Len(filename.v) - Len(ConfiguredExtension(filename)))
                 \o <<".", "h", "t", "m", "l">>)

\* C23 as stated: the output path of every rebuilt template is its path
\* relative to the template directory with the final extension swapped for
\* .html, under the output directory, whatever the letter case of the
\* extension and wherever else its text occurs in the path
C23_ExtensionSwappedForHtml ==
    \A t \in 1..Len(tasks) :
        tasks[t].outputPath # <<>>
            => tasks[t].outputPath = SwappedOutputPath(tasks[t].filename)

\* a stop() call returns with isRunning false and touches no rebuild, no
\* file and no callback
StopLeavesRebuilds ==
    (Len(calls') = Len(calls) + 1 /\ calls'[Len(calls')].op = "stop")
        => /\ ~isRunning'
           /\ UNCHANGED <<tasks, files, dirs, cbLog>>

\* C24: stop() returns with isRunning false without waiting for or giving
\* up the rebuilds in flight, which stay as they are and go on afterwards
C24_StopLeavesRebuildsInFlight == [][StopLeavesRebuilds]_vars

\* a rebuild has written its output and called onRebuild after stop(), while
\* isRunning was false
C24_Witness ==
    /\ ~isRunning
    /\ \E j \in 1..Len(cbLog) :
          /\ cbLog[j].cb = "onRebuild"
          /\ ~cbLog[j].isRunning
          /\ tasks[cbLog[j].task].written
          /\ cbLog[j].arg \in DOMAIN files

\* the rebuilds that have written to path
WritersOf(path) ==
    {t \in 1..Len(tasks) : tasks[t].written /\ tasks[t].outputPath = path}

\* the rebuild that wrote to path last
LastWriterOf(path) ==
    CHOOSE t \in WritersOf(path) : \A u \in WritersOf(path) : tasks[u].wroteAt =< tasks[t].wroteAt

\* a change event starts its rebuild at once, whatever rebuilds are in flight
RebuildStartsAtOnce ==
    \A t \in {Len(tasks) + 1} :
        (Len(tasks') = t /\ PassesFilters(t)')
            => /\ tasks'[t].pc = "await"
               /\ \A u \in 1..Len(tasks) : tasks'[u] = tasks[u]

\* C25: rebuilds of change events that overlap run independently, nothing
\* orders them, and an output file holds what the rebuild that wrote it
\* last has rendered, whichever event that rebuild belongs to
C25_LastWriterWins ==
    /\ [](\A path \in DOMAIN files :
            /\ WritersOf(path) # {}
            /\ files[path] = RenderedFor(tasks[LastWriterOf(path)].pending.id,
                                         tasks[LastWriterOf(path)].filePath,
                                         LastWriterOf(path)))
    /\ [][RebuildStartsAtOnce]_vars

\* two events on the same file: the rebuild of the second has written
\* first, and the file holds what the rebuild of the first event rendered
C25_Witness ==
    /\ Len(tasks) = 2
    /\ tasks[1].filename = tasks[2].filename
    /\ tasks[2].wroteAt = 1
    /\ tasks[1].wroteAt = 2
    /\ files[tasks[2].outputPath].call = 1

\* the callbacks invoked for the rebuild of task t
CallbacksOf(t) == SelectSeq(cbLog, LAMBDA c : c.task = t)

\* C27 as stated: with both callbacks given, a rebuild that has ended has
\* invoked exactly one of onRebuild and onError, once, and never onError
\* after it has written its output and called onRebuild
C27_ExactlyOneCallback ==
    (options.onRebuild /\ options.onError) =>
        \A t \in 1..Len(tasks) :
            (PassesFilters(t) /\ tasks[t].pc \in {"done", "rejected"})
                => /\ Len(CallbacksOf(t)) = 1
                   /\ tasks[t].written <=> CallbacksOf(t)[1].cb = "onRebuild"

\* a start() call on a running watcher creates no observer and no new
\* cancellation handle
StartOnRunningCreatesNothing ==
    (Len(calls') = Len(calls) + 1 /\ calls'[Len(calls')].op = "start" /\ isRunning)
        => UNCHANGED <<observers, abortController, aborted>>

\* a stop() call cancels the handle of the most recent effective start(),
\* and with it the observer that start() has created, and nothing else
StopCancelsCurrentObserver ==
    (Len(calls') = Len(calls) + 1 /\ calls'[Len(calls')].op = "stop")
        => /\ aborted' = aborted \cup ({abortController} \ {0})
           /\ LiveObservers' = {}
           /\ observers' = observers

\* C30: after any start() and stop() calls at most one observer is live,
\* none while isRunning is false, and the live one is that of the current
\* cancellation handle; stop() cancels exactly that observer; start() on a
\* running watcher creates neither an observer nor a new handle
C30_AtMostOneLiveObserver ==
    /\ [](Cardinality(LiveObservers) =< 1)
    /\ [](~isRunning => LiveObservers = {})
    /\ [](LiveObservers \subseteq {abortController})
    /\ [][StartOnRunningCreatesNothing]_vars
    /\ [][StopCancelsCurrentObserver]_vars

\* start(), stop(), start(): two observers were created, the first one is
\* cancelled, the second one is live
C30_Witness ==
    /\ Len(calls) = 3
    /\ calls[1].op = "start" /\ calls[2].op = "stop" /\ calls[3].op = "start"
    /\ Cardinality(observers) = 2
    /\ Cardinality(LiveObservers) = 1
    /\ isRunning

====
